---- MODULE Spec2Model ----
(***************************************************************************)
(* Commander core of opencode-usage: the command registry and background   *)
(* job runner (commander/services/command-runner.ts) and the configuration *)
(* store (commander/services/config-service.ts).                           *)
(***************************************************************************)
EXTENDS Integers, Sequences, FiniteSets, TLC

(***************************************************************************)
(* Bounds of the model.                                                    *)
(***************************************************************************)
\* jobs submitted by runCommand in one run
MaxJobs == 1
\* last instant of the job runner's clock
MaxTime == 2
\* writeConfig and rollbackConfig calls made in one run
MaxCalls == 2
\* spawnPluginCli calls made in one run
MaxCliCalls == 3
\* lines a plugin CLI process writes to its stdout
MaxLines == 3
\* single milliseconds the configuration store's clock advances by, per cache lifetime
MaxMs == 1
\* whole cache lifetimes the configuration store's clock advances by
MaxLifetimes == 1
\* writeConfig and rollbackConfig calls made in one run by a caller that awaits each
MaxAwaitedCalls == 3
\* jobs submitted by runCommand after a job has failed
MaxResubmits == 1
\* listConfigFiles calls made in one run
MaxListings == 1

VARIABLES
    now,        \* the clock read by new Date() / Date.now(); timeoutMs counts its ticks
    registry,   \* command-runner.ts: const registry = new Map<string, CommandSpec>()
    jobs,       \* command-runner.ts: const jobs = new Map<string, CommandJob>(), in insertion order
    exec,       \* per job: the closure of its executeJob call (spec, input, timedOut, timer, run-body promise)
    lastOp,     \* the call or callback that made the last step, with its arguments and its outcome
    files,      \* config-service.ts: the content of each source's file, when it exists
    tmps,       \* the content of each source's `${path}.tmp`, when it exists
    backups,    \* the directories under BACKUP_ROOT, each with the backup files it holds
    configCache,\* config-service.ts: const configCache = new Map<string, {data, expiry}>()
    calls,      \* the writeConfig and rollbackConfig calls made, each at its next await
    listings,   \* the listConfigFiles calls made, each at its next await
    bunxBarrier,\* part_002: const bunxBarrier = new Map<string, Promise<void>>(), by the call each promise is of
    bunxQueue,  \* plugin-adapters.ts: const bunxQueue = new Map<string, Promise<unknown>>(), likewise
    cliCalls,   \* the spawnPluginCli calls made, each at its next await
    registered, \* part_004 (action-service): let registered = false
    pluginAdapters \* the module plugin-adapters.js: "unloaded", "loading" (import() pending), "evaluated"

runnerVars == <<registry, jobs, exec>>
configVars == <<files, tmps, backups, configCache, calls, listings>>
cliVars == <<bunxBarrier, bunxQueue, cliCalls>>
serviceVars == <<registered, pluginAdapters>>
vars == <<now, registry, jobs, exec, lastOp, files, tmps, backups, configCache, calls, listings,
          bunxBarrier, bunxQueue, cliCalls, registered, pluginAdapters>>

(***************************************************************************)
(* Optional fields (startedAt?, result?, ...): absent or one value.        *)
(***************************************************************************)
None == <<>>
Some(x) == <<x>>

(***************************************************************************)
(* Command specs.  validateInput and run are functions; the model names    *)
(* the ones of two commands of the repository: the echo command of the     *)
(* runner's tests and actions.reset of plugin-adapters.ts.                 *)
(***************************************************************************)
CommandIds == {"echo"}
UnknownCommandId == "__nonexistent_cmd__"

\* makeEchoSpec(id): validator requiring {msg: string}, run returning {echo: msg}
EchoSpec(id) ==
    [id |-> id, validateInput |-> "requireMsg", run |-> "echo", timeoutMs |-> 1]

\* actions.reset: validator requiring a source, run logging around writeConfig
ResetSpec(id) ==
    [id |-> id, validateInput |-> "requireSource", run |-> "reset", timeoutMs |-> 2]

SpecPool == {EchoSpec(id) : id \in CommandIds} \cup {ResetSpec(id) : id \in CommandIds}

Payloads == {[msg |-> "hi"], [source |-> "opencode"]}

\* what the awaited writeConfig of a run body can throw: an Error (ConfigError),
\* or a value that is no Error
Thrown == {[isError |-> TRUE, message |-> "Config file not found"],
           [isError |-> FALSE, message |-> "a string"]}

\* p.name of a JavaScript object: undefined when the object has no such property
Field(p, name) == IF name \in DOMAIN p THEN p[name] ELSE "undefined"

\* spec.validateInput(payload): TRUE when it returns, FALSE when it throws
ValidateInputOk(validator, payload) ==
    CASE validator = "requireMsg" -> "msg" \in DOMAIN payload
      [] validator = "requireSource" -> "source" \in DOMAIN payload

\* the value validateInput returns
ValidateInput(validator, payload) ==
    CASE validator = "requireMsg" -> payload
      [] validator = "requireSource" -> [source |-> Field(payload, "source")]

\* the ctx.log messages of a run body before its first await
RunStartLogs(run, input) ==
    CASE run = "echo" -> <<>>
      [] run = "reset" -> << <<"Resetting config", Field(input, "source")>> >>

\* the ctx.log messages of a run body between its await and its return
RunEndLogs(run, input) ==
    CASE run = "echo" -> <<>>
      [] run = "reset" -> << <<"Config reset, backup at">> >>

\* the values a run body can resolve with
RunResults(run, input) ==
    CASE run = "echo" -> {[echo |-> Field(input, "msg")]}
      [] run = "reset" -> {[ok |-> TRUE, backupPath |-> "backupPath"]}

\* the values a run body can reject with
RunErrors(run, input) ==
    CASE run = "echo" -> {}
      [] run = "reset" -> Thrown

Terminal == {"success", "failed", "cancelled"}

(***************************************************************************)
(* Job mutations, one operator per place of command-runner.ts that writes  *)
(* a job.                                                                  *)
(***************************************************************************)
LogEntry(t, level, message) == [ts |-> t, level |-> level, message |-> message]

\* a log whose newest entry is put first
CtxLogUnshift(job, t, level, message) ==
    [job EXCEPT !.logs = <<LogEntry(t, level, message)>> \o @]

\* ctx.log(level, message)
CtxLog(job, t, level, message) ==
    [job EXCEPT !.logs = Append(@, LogEntry(t, level, message))]

\* a job object that does not carry the submitted command id
NewJobAnonymous(jobId, commandId) ==
    [id |-> jobId, commandId |-> "", status |-> "queued",
     startedAt |-> None, finishedAt |-> None, logs |-> <<>>,
     result |-> None, error |-> None]

\* runCommand: the job object stored in the job store
NewJob(jobId, commandId) ==
    [id |-> jobId, commandId |-> commandId, status |-> "queued",
     startedAt |-> None, finishedAt |-> None, logs |-> <<>>,
     result |-> None, error |-> None]

RECURSIVE CtxLogAll(_, _, _)
\* the run body's ctx.log("info", m) for each m of messages, in order
CtxLogAll(job, t, messages) ==
    IF messages = <<>> THEN job
    ELSE CtxLogAll(CtxLog(job, t, "info", Head(messages)), t, Tail(messages))

\* executeJob up to its first await: the writes before the timer is set
StartJob(job, t) ==
    CtxLog([job EXCEPT !.status = "running", !.startedAt = Some(t)],
           t, "info", <<"Running command", job.commandId>>)

CanCancelAnyStatus(job) == TRUE

\* cancelJob's guard on the job's status
CanCancel(job) == job.status \in {"queued", "running"}

\* cancelJob writing status and finishedAt without a log entry
CancelledJobNoLog(job, t) ==
    [job EXCEPT !.status = "cancelled", !.finishedAt = Some(t)]

\* cancelJob writing the status and the log entry only
CancelledJobNoFinishedAt(job, t) ==
    CtxLog([job EXCEPT !.status = "cancelled"],
           t, "warn", <<"Job cancelled by user">>)

\* cancelJob's writes
CancelledJob(job, t) ==
    CtxLog([job EXCEPT !.status = "cancelled", !.finishedAt = Some(t)],
           t, "warn", <<"Job cancelled by user">>)

TimeoutError(job, spec) ==
    [code |-> "TIMEOUT",
     message |-> <<"Command", job.commandId, "timed out after", spec.timeoutMs, "ms">>]

TimerCallbackJobNoWrite(job, spec, t) == job

\* the setTimeout callback's writes to the job (timedOut is set by the action)
TimerCallbackJob(job, spec, t) ==
    IF job.status = "running"
    THEN CtxLog([job EXCEPT !.status = "failed", !.finishedAt = Some(t),
                            !.error = Some(TimeoutError(job, spec))],
                t, "error", <<"Timeout after", spec.timeoutMs, "ms">>)
    ELSE job

ResolvedJobLateWrite(job, timedOut, result, t) ==
    CtxLog([job EXCEPT !.status = "success", !.finishedAt = Some(t),
                       !.result = Some(result)],
           t, "info", <<"Command completed successfully">>)

ResolvedJobNoResult(job, timedOut, result, t) ==
    IF timedOut THEN job
    ELSE CtxLog([job EXCEPT !.status = "success", !.finishedAt = Some(t)],
                t, "info", <<"Command completed successfully">>)

\* executeJob after `await spec.run` returned `result`
ResolvedJob(job, timedOut, result, t) ==
    IF timedOut THEN job
    ELSE CtxLog([job EXCEPT !.status = "success", !.finishedAt = Some(t),
                            !.result = Some(result)],
                t, "info", <<"Command completed successfully">>)

ErrorMessageUnknown(err) == <<"Unknown runtime error">>

\* err instanceof Error ? err.message : "Unknown runtime error"
\* (a message is the sequence of its parts, as in the template literals)
ErrorMessage(err) ==
    IF err.isError THEN <<err.message>> ELSE <<"Unknown runtime error">>

\* executeJob's catch block, after `await spec.run` threw `err`
RejectedJob(job, timedOut, err, t) ==
    IF timedOut THEN job
    ELSE CtxLog([job EXCEPT !.status = "failed", !.finishedAt = Some(t),
                            !.error = Some([code |-> "RUNTIME_ERROR",
                                            message |-> ErrorMessage(err)])],
                t, "error", ErrorMessage(err))

(***************************************************************************)
(* The record of the last step.                                            *)
(***************************************************************************)
\* op: the function called; name: the command id or config source it was
\* called on ("" when none); id: the job it was called on (0 when none)
Op(op, name, id, arg, threw, ret) ==
    [op |-> op, name |-> name, id |-> id, arg |-> arg, threw |-> threw, ret |-> ret]

\* a timer callback or a step of a run body: no caller, nothing returned
Callback(op, j) == Op("callback", "", 0, None, FALSE, None)

(***************************************************************************)
(* Initial state: empty registry and job store.                            *)
(***************************************************************************)
RunnerInit ==
    /\ registry = <<>>
    /\ jobs = <<>>
    /\ exec = <<>>

(***************************************************************************)
(* The clock.                                                              *)
(***************************************************************************)
\* a timer set by setTimeout that has neither fired nor been cleared waits
\* for an instant still to come
TimerWaits ==
    \E j \in DOMAIN exec : exec[j].timer = "armed" /\ now < exec[j].deadline

\* the clock advances beyond MaxTime while a timer waits
TimerTick ==
    /\ now >= MaxTime
    /\ TimerWaits
    /\ now' = now + 1
    /\ lastOp' = Callback("tick", 0)
    /\ UNCHANGED <<serviceVars, runnerVars, configVars, cliVars>>

\* the clock advances up to MaxTime
Tick ==
    /\ now < MaxTime
    /\ now' = now + 1
    /\ lastOp' = Callback("tick", 0)
    /\ UNCHANGED <<serviceVars, runnerVars, configVars, cliVars>>

(***************************************************************************)
(* command-runner.ts                                                       *)
(***************************************************************************)
RegistryHasNever(id) == FALSE

\* registry.has(id)
RegistryHas(id) == id \in DOMAIN registry

\* registry.set(spec.id, spec)
RegistrySet(spec) ==
    [id \in DOMAIN registry \cup {spec.id} |->
        IF id = spec.id THEN spec ELSE registry[id]]

RegisterCommand(spec) ==
    /\ IF RegistryHas(spec.id)
       THEN /\ lastOp' = Op("registerCommand", spec.id, 0, spec, TRUE, None)
            /\ UNCHANGED registry
       ELSE /\ registry' = RegistrySet(spec)
            /\ lastOp' = Op("registerCommand", spec.id, 0, spec, FALSE, None)
    /\ UNCHANGED <<now, serviceVars, jobs, exec, configVars, cliVars>>

RunCommandThrowsOnlyUnknown(commandId, payload) == ~RegistryHas(commandId)

\* the checks of runCommand that throw before a job is created
RunCommandThrows(commandId, payload) ==
    \/ ~RegistryHas(commandId)
    \/ ~ValidateInputOk(registry[commandId].validateInput, payload)

\* an executeJob that sets no timer
NoTimeout(spec) == "cleared"

\* setTimeout(callback, spec.timeoutMs): the timer of executeJob, armed
SetTimeout(spec) == "armed"

\* runCommand while fewer than limit jobs were submitted
RunCommandWithin(limit, commandId, payload) ==
    /\ IF RunCommandThrows(commandId, payload)
       THEN /\ lastOp' = Op("runCommand", commandId, 0, payload, TRUE, None)
            /\ UNCHANGED <<jobs, exec>>
       ELSE LET spec == registry[commandId]
                input == ValidateInput(spec.validateInput, payload)
                jobId == Len(jobs) + 1
            IN /\ Len(jobs) < limit
               /\ jobs' = Append(jobs, CtxLogAll(StartJob(NewJob(jobId, commandId), now),
                                                 now, RunStartLogs(spec.run, input)))
               /\ exec' = Append(exec, [spec |-> spec, input |-> input,
                                        timedOut |-> FALSE, timer |-> SetTimeout(spec),
                                        deadline |-> now + spec.timeoutMs,
                                        body |-> [state |-> "pending"],
                                        promise |-> "pending"])
               /\ lastOp' = Op("runCommand", commandId, jobId, payload, FALSE, Some([jobId |-> jobId]))
    /\ UNCHANGED <<now, serviceVars, registry, configVars, cliVars>>

RunCommand(commandId, payload) == RunCommandWithin(MaxJobs, commandId, payload)

\* runCommand called once a job has failed
RunCommandAfterFailure(commandId, payload) ==
    /\ \E j \in DOMAIN jobs : jobs[j].status = "failed"
    /\ RunCommandWithin(MaxJobs + MaxResubmits, commandId, payload)

JobIds == 1..(MaxJobs + 1)

\* the job ids when jobs are submitted again after a failure
ResubmitJobIds == 1..(MaxJobs + MaxResubmits + 1)

\* getJob(jobId): the job, or undefined
GetJob(jobId) == IF jobId \in DOMAIN jobs THEN Some(jobs[jobId]) ELSE None

\* listJobs(): the jobs in insertion order
ListJobs == jobs

CancelJob(jobId) ==
    /\ IF jobId \in DOMAIN jobs /\ CanCancel(jobs[jobId])
       THEN /\ jobs' = [jobs EXCEPT ![jobId] = CancelledJob(@, now)]
            /\ lastOp' = Op("cancelJob", "", jobId, None, FALSE, Some([cancelled |-> TRUE]))
       ELSE /\ lastOp' = Op("cancelJob", "", jobId, None, FALSE, Some([cancelled |-> FALSE]))
            /\ UNCHANGED jobs
    /\ UNCHANGED <<now, serviceVars, registry, exec, configVars, cliVars>>

\* the setTimeout callback of executeJob
TimerFire(j) ==
    /\ j \in DOMAIN jobs
    /\ exec[j].timer = "armed"
    /\ now >= exec[j].deadline
    /\ exec' = [exec EXCEPT ![j].timedOut = TRUE, ![j].timer = "fired"]
    /\ jobs' = [jobs EXCEPT ![j] = TimerCallbackJob(@, exec[j].spec, now)]
    /\ lastOp' = Callback("timer", j)
    /\ UNCHANGED <<now, serviceVars, registry, configVars, cliVars>>

\* clearTimeout(timer), reached only when timedOut is false
ClearTimeout(e) == IF e.timedOut THEN e.timer ELSE "cleared"

\* the promise of an executeJob without its catch block
UncaughtPromise(bodyState) ==
    IF bodyState = "rejected" THEN "rejected" ELSE "fulfilled"

\* the promise of executeJob once the run body has settled: the try block
\* returns after a resolved body, the catch block returns after a rejected one
ExecuteJobPromise(bodyState) == "fulfilled"

\* the run body's promise resolves and executeJob continues after its await
BodyResolve(j) ==
    /\ j \in DOMAIN jobs
    /\ exec[j].body.state = "pending"
    /\ \E result \in RunResults(exec[j].spec.run, exec[j].input) :
        /\ jobs' = [jobs EXCEPT ![j] =
                ResolvedJob(CtxLogAll(@, now, RunEndLogs(exec[j].spec.run, exec[j].input)),
                            exec[j].timedOut, result, now)]
        /\ exec' = [exec EXCEPT ![j].body = [state |-> "resolved", value |-> result],
                                ![j].timer = ClearTimeout(exec[j]),
                                ![j].promise = ExecuteJobPromise("resolved")]
    /\ lastOp' = Callback("bodySettled", j)
    /\ UNCHANGED <<now, serviceVars, registry, configVars, cliVars>>

\* the run body's promise rejects and executeJob continues in its catch block
BodyReject(j) ==
    /\ j \in DOMAIN jobs
    /\ exec[j].body.state = "pending"
    /\ \E err \in RunErrors(exec[j].spec.run, exec[j].input) :
        /\ jobs' = [jobs EXCEPT ![j] = RejectedJob(@, exec[j].timedOut, err, now)]
        /\ exec' = [exec EXCEPT ![j].body = [state |-> "rejected", value |-> err],
                                ![j].timer = ClearTimeout(exec[j]),
                                ![j].promise = ExecuteJobPromise("rejected")]
    /\ lastOp' = Callback("bodySettled", j)
    /\ UNCHANGED <<now, serviceVars, registry, configVars, cliVars>>

RunnerNext ==
    \/ Tick
    \/ \E spec \in SpecPool : RegisterCommand(spec)
    \/ \E commandId \in CommandIds \cup {UnknownCommandId}, payload \in Payloads :
          RunCommand(commandId, payload)
    \/ \E jobId \in JobIds : CancelJob(jobId)
    \/ \E j \in JobIds : TimerFire(j)
    \/ \E j \in JobIds : BodyResolve(j)
    \/ \E j \in JobIds : BodyReject(j)

\* the runner with a caller that submits again after a failure
ResubmitNext ==
    \/ Tick
    \/ \E spec \in SpecPool : RegisterCommand(spec)
    \/ \E commandId \in CommandIds \cup {UnknownCommandId}, payload \in Payloads :
          RunCommand(commandId, payload)
    \/ \E commandId \in CommandIds, payload \in Payloads :
          RunCommandAfterFailure(commandId, payload)
    \/ \E jobId \in ResubmitJobIds : CancelJob(jobId)
    \/ \E j \in ResubmitJobIds : TimerFire(j)
    \/ \E j \in ResubmitJobIds : BodyResolve(j)
    \/ \E j \in ResubmitJobIds : BodyReject(j)

\* the runner with a clock that does not stop before a waiting timer is due
RunnerFairNext ==
    \/ RunnerNext
    \/ TimerTick

(***************************************************************************)
(* Text.  A text is a sequence of characters; a file's content, a JSON     *)
(* document and a directory name are texts.                                *)
(***************************************************************************)
LF == "\n"

RECURSIVE Digits(_)
\* the decimal digits of a natural number
Digits(n) ==
    LET d == <<"0", "1", "2", "3", "4", "5", "6", "7", "8", "9">>
    IN IF n < 10 THEN <<d[n + 1]>> ELSE Digits(n \div 10) \o <<d[(n % 10) + 1]>>

\* String(n).padStart(width, "0")
Pad(n, width) ==
    LET ds == Digits(n)
    IN [i \in 1..(width - Len(ds)) |-> "0"] \o ds

DigitValue(c) ==
    CASE c = "0" -> 0 [] c = "1" -> 1 [] c = "2" -> 2 [] c = "3" -> 3 [] c = "4" -> 4
      [] c = "5" -> 5 [] c = "6" -> 6 [] c = "7" -> 7 [] c = "8" -> 8 [] c = "9" -> 9

IsDigit(c) == c \in {"0", "1", "2", "3", "4", "5", "6", "7", "8", "9"}

\* the UTF-16 code unit of a character of a backup directory name
CharCode(c) ==
    CASE c = "-" -> 45
      [] IsDigit(c) -> 48 + DigitValue(c)
      [] c = "T" -> 84
      [] c = "Z" -> 90

(***************************************************************************)
(* JSON values: null, booleans, natural numbers, strings without escapes,  *)
(* arrays, and objects as the sequence of their members in insertion order.*)
(***************************************************************************)
JNull == [t |-> "null"]
JBool(b) == [t |-> "bool", v |-> b]
JNum(n) == [t |-> "num", v |-> n]
JStr(chars) == [t |-> "str", v |-> chars]
JArr(items) == [t |-> "arr", v |-> items]
JObj(members) == [t |-> "obj", v |-> members]
Member(key, value) == [k |-> key, v |-> value]

Spaces(n) == [i \in 1..n |-> " "]

RECURSIVE Stringify(_, _), StringifyItems(_, _, _)
\* JSON.stringify(value, null, 2), at the given indentation
Stringify(value, indent) ==
    CASE value.t = "null" -> <<"n", "u", "l", "l">>
      [] value.t = "bool" ->
            IF value.v THEN <<"t", "r", "u", "e">> ELSE <<"f", "a", "l", "s", "e">>
      [] value.t = "num" -> Digits(value.v)
      [] value.t = "str" -> <<"\"">> \o value.v \o <<"\"">>
      [] value.t = "arr" ->
            IF value.v = <<>> THEN <<"[", "]">>
            ELSE <<"[", LF>> \o StringifyItems(value, 1, indent + 2)
                 \o <<LF>> \o Spaces(indent) \o <<"]">>
      [] value.t = "obj" ->
            IF value.v = <<>> THEN <<"{", "}">>
            ELSE <<"{", LF>> \o StringifyItems(value, 1, indent + 2)
                 \o <<LF>> \o Spaces(indent) \o <<"}">>

\* the items (or members) i.. of an array (or object), one per line
StringifyItems(value, i, indent) ==
    LET item == value.v[i]
        one == IF value.t = "arr" THEN Stringify(item, indent)
               ELSE <<"\"">> \o item.k \o <<"\"", ":", " ">> \o Stringify(item.v, indent)
    IN Spaces(indent) \o one \o
       (IF i = Len(value.v) THEN <<>>
        ELSE <<",", LF>> \o StringifyItems(value, i + 1, indent))

\* writeConfig: JSON.stringify(data, null, 2) + "\n"
Serialize(data) == Stringify(data, 0) \o <<LF>>

IsWs(c) == c \in {" ", LF, "\t", "\r"}

RECURSIVE SkipWs(_, _)
\* the first position from i on that holds no white space
SkipWs(text, i) ==
    IF i <= Len(text) /\ IsWs(text[i]) THEN SkipWs(text, i + 1) ELSE i

\* whether `word` stands in text at position i
Matches(text, i, word) ==
    /\ i + Len(word) - 1 <= Len(text)
    /\ \A k \in 1..Len(word) : text[i + k - 1] = word[k]

ParseFail == [ok |-> FALSE]
Parsed(value, next) == [ok |-> TRUE, value |-> value, next |-> next]

RECURSIVE ParseDigits(_, _, _)
\* the number of the digits from i on, after the digits read so far (acc)
ParseDigits(text, i, acc) ==
    IF i <= Len(text) /\ IsDigit(text[i])
    THEN ParseDigits(text, i + 1, acc * 10 + DigitValue(text[i]))
    ELSE Parsed(JNum(acc), i)

RECURSIVE ParseChars(_, _, _)
\* the characters of a string up to its closing quote (no escapes, no control characters)
ParseChars(text, i, acc) ==
    IF i > Len(text) \/ text[i] \in {"\\", LF, "\t", "\r"} THEN ParseFail
    ELSE IF text[i] = "\"" THEN Parsed(JStr(acc), i + 1)
    ELSE ParseChars(text, i + 1, Append(acc, text[i]))

\* an object's members with `member` set: a repeated key keeps its place and takes the new value
SetMember(members, member) ==
    IF \E i \in 1..Len(members) : members[i].k = member.k
    THEN [i \in 1..Len(members) |->
            IF members[i].k = member.k THEN member ELSE members[i]]
    ELSE Append(members, member)

RECURSIVE ParseValue(_, _), ParseItems(_, _, _), ParseMembers(_, _, _)
\* the JSON value that starts at position i (after white space)
ParseValue(text, i0) ==
    LET i == SkipWs(text, i0)
    IN IF i > Len(text) THEN ParseFail
       ELSE IF Matches(text, i, <<"n", "u", "l", "l">>) THEN Parsed(JNull, i + 4)
       ELSE IF Matches(text, i, <<"t", "r", "u", "e">>) THEN Parsed(JBool(TRUE), i + 4)
       ELSE IF Matches(text, i, <<"f", "a", "l", "s", "e">>) THEN Parsed(JBool(FALSE), i + 5)
       ELSE IF text[i] = "0" THEN Parsed(JNum(0), i + 1)
       ELSE IF IsDigit(text[i]) THEN ParseDigits(text, i, 0)
       ELSE IF text[i] = "\"" THEN ParseChars(text, i + 1, <<>>)
       ELSE IF text[i] = "[" THEN
            LET j == SkipWs(text, i + 1)
            IN IF j <= Len(text) /\ text[j] = "]" THEN Parsed(JArr(<<>>), j + 1)
               ELSE ParseItems(text, j, <<>>)
       ELSE IF text[i] = "{" THEN
            LET j == SkipWs(text, i + 1)
            IN IF j <= Len(text) /\ text[j] = "}" THEN Parsed(JObj(<<>>), j + 1)
               ELSE ParseMembers(text, j, <<>>)
       ELSE ParseFail

\* the items of an array from position i on, after the items read so far
ParseItems(text, i, acc) ==
    LET item == ParseValue(text, i)
    IN IF ~item.ok THEN ParseFail
       ELSE LET j == SkipWs(text, item.next)
            IN IF j > Len(text) THEN ParseFail
               ELSE IF text[j] = "]" THEN Parsed(JArr(Append(acc, item.value)), j + 1)
               ELSE IF text[j] = "," THEN ParseItems(text, j + 1, Append(acc, item.value))
               ELSE ParseFail

\* the members of an object from position i on, after the members read so far
ParseMembers(text, i0, acc) ==
    LET i == SkipWs(text, i0)
    IN IF i > Len(text) \/ text[i] # "\"" THEN ParseFail
       ELSE LET key == ParseChars(text, i + 1, <<>>)
            IN IF ~key.ok THEN ParseFail
               ELSE LET c == SkipWs(text, key.next)
                    IN IF c > Len(text) \/ text[c] # ":" THEN ParseFail
                       ELSE LET item == ParseValue(text, c + 1)
                            IN IF ~item.ok THEN ParseFail
                               ELSE LET j == SkipWs(text, item.next)
                                        members == SetMember(acc, Member(key.value.v, item.value))
                                    IN IF j > Len(text) THEN ParseFail
                                       ELSE IF text[j] = "}" THEN Parsed(JObj(members), j + 1)
                                       ELSE IF text[j] = "," THEN ParseMembers(text, j + 1, members)
                                       ELSE ParseFail

\* JSON.parse(text): one value, then only white space
JsonParse(text) ==
    LET r == ParseValue(text, 1)
    IN IF r.ok /\ SkipWs(text, r.next) > Len(text) THEN [ok |-> TRUE, value |-> r.value]
       ELSE ParseFail

(***************************************************************************)
(* Timestamps.  The clock counts milliseconds from ClockOrigin, the        *)
(* instant 2024-12-31T23:59:59.999Z, so that a run crosses a day boundary. *)
(***************************************************************************)
\* days from 1970-01-01 to the clock's origin
ClockOriginDay == 20088
\* milliseconds of the clock's origin into its day
ClockOriginMs == 86399999
MsPerDay == 86400000

\* the civil date (year, month, day) of a day count from 1970-01-01
CivilFromDays(days) ==
    LET z == days + 719468
        era == z \div 146097
        doe == z - era * 146097
        yoe == (doe - doe \div 1460 + doe \div 36524 - doe \div 146096) \div 365
        doy == doe - (365 * yoe + yoe \div 4 - yoe \div 100)
        mp == (5 * doy + 2) \div 153
        d == doy - (153 * mp + 2) \div 5 + 1
        m == IF mp < 10 THEN mp + 3 ELSE mp - 9
        y == yoe + era * 400 + (IF m <= 2 THEN 1 ELSE 0)
    IN [year |-> y, month |-> m, day |-> d]

\* the time of day alone at clock instant t: HH:mm:ss.sssZ
TimeString(t) ==
    LET ms == (ClockOriginMs + t) % MsPerDay
    IN Pad(ms \div 3600000, 2) \o <<":">> \o Pad((ms \div 60000) % 60, 2)
       \o <<":">> \o Pad((ms \div 1000) % 60, 2) \o <<".">> \o Pad(ms % 1000, 3) \o <<"Z">>

\* new Date().toISOString() at clock instant t: YYYY-MM-DDTHH:mm:ss.sssZ
IsoString(t) ==
    LET total == ClockOriginMs + t
        date == CivilFromDays(ClockOriginDay + total \div MsPerDay)
        ms == total % MsPerDay
    IN Pad(date.year, 4) \o <<"-">> \o Pad(date.month, 2) \o <<"-">> \o Pad(date.day, 2)
       \o <<"T">> \o Pad(ms \div 3600000, 2) \o <<":">> \o Pad((ms \div 60000) % 60, 2)
       \o <<":">> \o Pad((ms \div 1000) % 60, 2) \o <<".">> \o Pad(ms % 1000, 3) \o <<"Z">>

\* text.replace(/[:.]/g, "-")
ReplaceColonsAndDots(text) ==
    [i \in 1..Len(text) |-> IF text[i] \in {":", "."} THEN "-" ELSE text[i]]

\* createBackup: the name of the backup directory made at instant t
BackupDirName(t) == ReplaceColonsAndDots(IsoString(t))

RECURSIVE LexLess(_, _)
\* a < b as Array.prototype.sort compares strings: by code units, a prefix first
LexLess(a, b) ==
    IF b = <<>> THEN FALSE
    ELSE IF a = <<>> THEN TRUE
    ELSE IF Head(a) = Head(b) THEN LexLess(Tail(a), Tail(b))
    ELSE CharCode(Head(a)) < CharCode(Head(b))

RECURSIVE SortNames(_)
\* entries.sort(): the names in ascending order
SortNames(names) ==
    IF names = {} THEN <<>>
    ELSE LET least == CHOOSE n \in names : \A o \in names \ {n} : LexLess(n, o)
         IN <<least>> \o SortNames(names \ {least})

(***************************************************************************)
(* config-service.ts: sources, paths and the file system.                  *)
(***************************************************************************)
ConfigSources ==
    {"codex-multi-account-accounts", "anthropic-multi-account-state",
     "antigravity-accounts", "opencode"}

SOURCE_FILENAMES == [source \in ConfigSources |-> source \o ".json"]

CONFIG_DIR == "~/.config/opencode"

\* configPath(source)
ConfigPath(source) == CONFIG_DIR \o "/" \o SOURCE_FILENAMES[source]

\* the path of a source's backup file in a directory of BACKUP_ROOT
BackupFile(dir, source) == [dir |-> dir, name |-> SOURCE_FILENAMES[source]]

CONFIG_CACHE_TTL == 2000

\* the sources that calls are made on
CalledSources == {"opencode"}

\* the data written by callers: the empty object of actions.reset, and an
\* object with an array and a nested object
DataReset == JObj(<<>>)
DataImport ==
    JObj(<<Member(<<"a">>, JArr(<<JNum(1), JNull, JStr(<<"x">>)>>)),
           Member(<<"b">>, JObj(<<Member(<<"c">>, JBool(TRUE))>>))>>)
DataValues == {DataReset, DataImport}

\* what a source's file holds before the first call: nothing, a JSON document
\* written by the tool that owns the file, or text that is no JSON
InitialContents ==
    {None,
     Some(<<"{", "\"", "v", "\"", ":", "7", "}", LF>>),
     Some(<<"{", "v", ":">>)}

\* the backup files of a source, over all directories
BackupsOf(source) == {dir \in DOMAIN backups : backups[dir][source] # None}

\* mkdir(backupDir, {recursive: true})
Mkdir(dir) ==
    [d \in DOMAIN backups \cup {dir} |->
        IF d \in DOMAIN backups THEN backups[d] ELSE [s \in ConfigSources |-> None]]

\* the backup directories after content is written to the file of source in dir
PutBackup(dir, source, content) ==
    [backups EXCEPT ![dir][source] = Some(content)]

ConfigInit ==
    /\ files \in [ConfigSources -> InitialContents]
    /\ \A source \in ConfigSources \ CalledSources : files[source] = None
    /\ tmps = [source \in ConfigSources |-> None]
    /\ backups = <<>>
    /\ configCache = <<>>
    /\ calls = <<>>
    /\ listings = <<>>

(***************************************************************************)
(* The read cache.                                                         *)
(***************************************************************************)
\* getCached(path): the cached data (Some), or undefined (None)
GetCached(path) ==
    IF path \in DOMAIN configCache /\ now < configCache[path].expiry
    THEN Some(configCache[path].data)
    ELSE None

\* setCache(path, data)
SetCache(path, data) ==
    [q \in DOMAIN configCache \cup {path} |->
        IF q = path THEN [data |-> data, expiry |-> now + CONFIG_CACHE_TTL]
        ELSE configCache[q]]

\* the whole cache is dropped
InvalidateAll(source) == <<>>

\* invalidateCache(source)
InvalidateCache(source) ==
    [q \in DOMAIN configCache \ {ConfigPath(source)} |-> configCache[q]]

(***************************************************************************)
(* readConfig                                                              *)
(***************************************************************************)
\* the outcome of readConfig(source) in the current state: the value it
\* returns, or the status of the ConfigError it throws
ReadConfigResult(source) ==
    LET cached == GetCached(ConfigPath(source))
    IN IF cached # None THEN [threw |-> FALSE, value |-> cached[1], fromCache |-> TRUE]
       ELSE IF files[source] = None THEN [threw |-> TRUE, status |-> 404]
       ELSE LET parsed == JsonParse(files[source][1])
            IN IF parsed.ok
               THEN [threw |-> FALSE, value |-> parsed.value, fromCache |-> FALSE]
               ELSE [threw |-> TRUE, status |-> 422]

ReadConfig(source) ==
    LET r == ReadConfigResult(source)
    IN /\ configCache' = IF ~r.threw /\ ~r.fromCache
                         THEN SetCache(ConfigPath(source), r.value)
                         ELSE configCache
       /\ lastOp' = Op("readConfig", source, 0, None, r.threw,
                       IF r.threw THEN Some([status |-> r.status])
                       ELSE Some([value |-> r.value]))
       /\ UNCHANGED <<now, serviceVars, runnerVars, cliVars, listings, files, tmps, backups, calls>>

(***************************************************************************)
(* writeConfig and rollbackConfig: a call advances from one await to the   *)
(* next; pc names the file-system operation it is waiting for.             *)
(***************************************************************************)
\* fd: the file a call has open for writing: "tmp" (the file at the tmp path),
\* "live" (that file after a rename has put it at the config path), "gone"
\* (that file after a later rename has replaced it), or "none";
\* at: the await a call was at when the process died ("" for a call that did
\* not die with the process)
Call(op, source, data, pc, dir) ==
    [op |-> op, source |-> source, data |-> data, pc |-> pc, dir |-> dir, fd |-> "none",
     at |-> ""]

\* the pc of a call that has returned, thrown, or died with the process
Settled == {"done", "threw", "crashed"}

\* a call that has returned (pc "done"), thrown (pc "threw") or died (pc "crashed")
Finished(call, pc) == Call(call.op, call.source, call.data, pc, None)

\* writeConfig(source, data) up to createBackup's `await mkdir`
WriteConfigCall(source, data) ==
    /\ Len(calls) < MaxCalls
    /\ calls' = Append(calls, Call("writeConfig", source, Some(data), "mkdir",
                                   Some(BackupDirName(now))))
    /\ lastOp' = Callback("call", Len(calls) + 1)
    /\ UNCHANGED <<now, serviceVars, runnerVars, cliVars, listings, files, tmps, backups, configCache>>

\* createBackup: mkdir done, `await fileExists(path)` next
BackupMkdir(c) ==
    /\ c \in DOMAIN calls
    /\ calls[c].pc = "mkdir"
    /\ backups' = Mkdir(calls[c].dir[1])
    /\ calls' = [calls EXCEPT ![c].pc = "stat"]
    /\ lastOp' = Callback("mkdir", c)
    /\ UNCHANGED <<now, serviceVars, runnerVars, cliVars, listings, files, tmps, configCache>>

\* createBackup: fileExists(path) answered, copyFile or the marker write next
BackupStat(c) ==
    /\ c \in DOMAIN calls
    /\ calls[c].pc = "stat"
    /\ calls' = [calls EXCEPT ![c].pc =
                    IF files[calls[c].source] # None THEN "copy" ELSE "marker"]
    /\ lastOp' = Callback("stat", c)
    /\ UNCHANGED <<now, serviceVars, runnerVars, cliVars, listings, files, tmps, backups, configCache>>

\* createBackup: copyFile(path, backupFile), or the "null\n" marker written;
\* writeConfig's `await writeFileText(tmpPath, content)` next
BackupWrite(c) ==
    /\ c \in DOMAIN calls
    /\ calls[c].pc \in {"copy", "marker"}
    /\ LET source == calls[c].source
           content == IF calls[c].pc = "copy" THEN files[source][1]
                      ELSE <<"n", "u", "l", "l", LF>>
       IN backups' = PutBackup(calls[c].dir[1], source, content)
    /\ calls' = [calls EXCEPT ![c].pc = "openTmp"]
    /\ lastOp' = Callback("backup", c)
    /\ UNCHANGED <<now, serviceVars, runnerVars, cliVars, listings, files, tmps, configCache>>

\* writeFileText(tmpPath, ...) or copyFile(..., tmpPath) opens the tmp path for
\* writing: the file there is created, or emptied when it exists
OpenTmp(c) ==
    /\ c \in DOMAIN calls
    /\ calls[c].pc = "openTmp"
    /\ tmps' = [tmps EXCEPT ![calls[c].source] = Some(<<>>)]
    /\ calls' = [calls EXCEPT ![c].fd = "tmp",
                              ![c].pc = IF calls[c].op = "writeConfig"
                                        THEN "writeTmp" ELSE "copyTmp"]
    /\ lastOp' = Callback("openTmp", c)
    /\ UNCHANGED <<now, serviceVars, runnerVars, cliVars, listings, files, backups, configCache>>

\* the config files after call c has written content to the file it has open
FilesAfterWrite(c, content) ==
    IF calls[c].fd = "live"
    THEN [files EXCEPT ![calls[c].source] = Some(content)]
    ELSE files

\* the tmp files after call c has written content to the file it has open
TmpsAfterWrite(c, content) ==
    IF calls[c].fd = "tmp"
    THEN [tmps EXCEPT ![calls[c].source] = Some(content)]
    ELSE tmps

\* writeConfig: the content written to the open file, which is closed;
\* `await rename(tmpPath, path)` next
WriteTmp(c) ==
    /\ c \in DOMAIN calls
    /\ calls[c].pc = "writeTmp"
    /\ tmps' = TmpsAfterWrite(c, Serialize(calls[c].data[1]))
    /\ files' = FilesAfterWrite(c, Serialize(calls[c].data[1]))
    /\ calls' = [calls EXCEPT ![c].pc = "rename", ![c].fd = "none"]
    /\ lastOp' = Callback("writeTmp", c)
    /\ UNCHANGED <<now, serviceVars, runnerVars, cliVars, listings, backups, configCache>>

\* where an open file is after a rename of the tmp path to the config path
MovedFd(fd) ==
    CASE fd = "tmp" -> "live"
      [] fd = "live" -> "gone"
      [] OTHER -> fd

\* the tmp files after rename(tmpPath, path): the tmp path is gone
TmpsAfterRename(source) == [tmps EXCEPT ![source] = None]

\* rename(tmpPath, path) in the file system; it rejects (ENOENT) when the tmp
\* file is gone, and the call throws
Rename(c) ==
    /\ c \in DOMAIN calls
    /\ calls[c].pc = "rename"
    /\ LET source == calls[c].source
       IN IF tmps[source] = None
          THEN /\ calls' = [calls EXCEPT ![c] = Finished(@, "threw")]
               /\ lastOp' = Op(calls[c].op, source, 0, calls[c].data, TRUE,
                               Some([code |-> "ENOENT"]))
               /\ UNCHANGED <<files, tmps>>
          ELSE /\ files' = [files EXCEPT ![source] = tmps[source]]
               /\ tmps' = TmpsAfterRename(source)
               /\ calls' = [d \in DOMAIN calls |->
                              IF d = c THEN [calls[c] EXCEPT !.pc = "renamed"]
                              ELSE IF calls[d].source = source
                              THEN [calls[d] EXCEPT !.fd = MovedFd(@)]
                              ELSE calls[d]]
               /\ lastOp' = Callback("rename", c)
    /\ UNCHANGED <<now, serviceVars, runnerVars, cliVars, listings, backups, configCache>>

\* the call resumes after `await rename`: writeConfig invalidates the cache and
\* returns {backupPath}, rollbackConfig returns {restoredFrom}
Return(c) ==
    /\ c \in DOMAIN calls
    /\ calls[c].pc = "renamed"
    /\ configCache' = IF calls[c].op = "writeConfig"
                      THEN InvalidateCache(calls[c].source)
                      ELSE configCache
    /\ calls' = [calls EXCEPT ![c] = Finished(@, "done")]
    /\ lastOp' = Op(calls[c].op, calls[c].source, 0, calls[c].data, FALSE,
                    Some([path |-> BackupFile(calls[c].dir[1], calls[c].source)]))
    /\ UNCHANGED <<now, serviceVars, runnerVars, cliVars, listings, files, tmps, backups>>

\* no writeConfig or rollbackConfig call is in flight
NoCallInFlight == \A c \in DOMAIN calls : calls[c].pc \in Settled

\* writeConfig(source, data) by a caller that has awaited its earlier calls
AwaitedWriteConfigCall(source, data) ==
    /\ NoCallInFlight
    /\ Len(calls) < MaxAwaitedCalls
    /\ calls' = Append(calls, Call("writeConfig", source, Some(data), "mkdir",
                                   Some(BackupDirName(now))))
    /\ lastOp' = Callback("call", Len(calls) + 1)
    /\ UNCHANGED <<now, serviceVars, runnerVars, cliVars, listings, files, tmps, backups, configCache>>

\* readConfig(source) by a caller that has awaited its earlier calls
AwaitedReadConfig(source) ==
    /\ NoCallInFlight
    /\ ReadConfig(source)

\* rollbackConfig(source) by a caller that has awaited its earlier calls
AwaitedRollbackConfigCall(source) ==
    /\ NoCallInFlight
    /\ Len(calls) < MaxAwaitedCalls
    /\ calls' = Append(calls, Call("rollbackConfig", source, None, "find", None))
    /\ lastOp' = Callback("call", Len(calls) + 1)
    /\ UNCHANGED <<now, serviceVars, runnerVars, cliVars, listings, files, tmps, backups, configCache>>

\* rollbackConfig(source) up to findLatestBackup's first await
RollbackConfigCall(source) ==
    /\ Len(calls) < MaxCalls
    /\ calls' = Append(calls, Call("rollbackConfig", source, None, "find", None))
    /\ lastOp' = Callback("call", Len(calls) + 1)
    /\ UNCHANGED <<now, serviceVars, runnerVars, cliVars, listings, files, tmps, backups, configCache>>

\* findLatestBackup walking the sorted directories forwards
FindEarliestBackup(source) ==
    LET sorted == SortNames(DOMAIN backups)
        having == {i \in 1..Len(sorted) : backups[sorted[i]][source] # None}
    IN IF having = {} THEN None
       ELSE Some(sorted[CHOOSE i \in having : \A k \in having : i <= k])

\* findLatestBackup(source): the last directory, in sorted order, that holds
\* a backup of the source (Some), or null (None)
FindLatestBackup(source) ==
    LET sorted == SortNames(DOMAIN backups)
        having == {i \in 1..Len(sorted) : backups[sorted[i]][source] # None}
    IN IF having = {} THEN None
       ELSE Some(sorted[CHOOSE i \in having : \A k \in having : k <= i])

\* a rollbackConfig that reports a missing backup as an unparseable file
NoBackupErrorUnparseable(source) == [status |-> 422]

\* new ConfigError(`No backup found for source: ${source}`, 404)
NoBackupError(source) == [status |-> 404]

\* rollbackConfig: findLatestBackup answered; 404 when it found none,
\* `await copyFile(latest, tmpPath)` next otherwise
RollbackFind(c) ==
    /\ c \in DOMAIN calls
    /\ calls[c].pc = "find"
    /\ LET latest == FindLatestBackup(calls[c].source)
       IN IF latest = None
          THEN /\ calls' = [calls EXCEPT ![c] = Finished(@, "threw")]
               /\ lastOp' = Op("rollbackConfig", calls[c].source, 0, None, TRUE,
                               Some(NoBackupError(calls[c].source)))
          ELSE /\ calls' = [calls EXCEPT ![c].pc = "openTmp", ![c].dir = latest]
               /\ lastOp' = Callback("find", c)
    /\ UNCHANGED <<now, serviceVars, runnerVars, cliVars, listings, files, tmps, backups, configCache>>

\* the backups after the backup of the source in dir was moved, not copied
MoveFileSource(dir, source) ==
    [backups EXCEPT ![dir][source] = None]

\* the backups after copyFile(latest, tmpPath): copyFile reads its source and
\* leaves it in place
CopyFileSource(dir, source) ==
    backups

\* rollbackConfig: copyFile(latest, tmpPath) has copied the backup into the
\* open file, which is closed; `await rename(tmpPath, path)` next
RollbackCopyTmp(c) ==
    /\ c \in DOMAIN calls
    /\ calls[c].pc = "copyTmp"
    /\ tmps' = TmpsAfterWrite(c, backups[calls[c].dir[1]][calls[c].source][1])
    /\ files' = FilesAfterWrite(c, backups[calls[c].dir[1]][calls[c].source][1])
    /\ backups' = CopyFileSource(calls[c].dir[1], calls[c].source)
    /\ calls' = [calls EXCEPT ![c].pc = "rename", ![c].fd = "none"]
    /\ lastOp' = Callback("copyTmp", c)
    /\ UNCHANGED <<now, serviceVars, runnerVars, cliVars, listings, configCache>>

\* the process dies and is started again: the calls in flight end where they
\* are, the read cache is empty, the files stay as they are
Crash ==
    /\ \E c \in DOMAIN calls : calls[c].pc \notin Settled
    /\ calls' = [c \in DOMAIN calls |->
                    IF calls[c].pc \in Settled THEN calls[c]
                    ELSE [Finished(calls[c], "crashed") EXCEPT !.at = calls[c].pc]]
    /\ configCache' = <<>>
    /\ lastOp' = Callback("crash", 0)
    /\ UNCHANGED <<now, serviceVars, runnerVars, cliVars, listings, files, tmps, backups>>

\* what a write that the file system rejects has put into the file before:
\* nothing, or the first character
WrittenBeforeError(content) ==
    {<<>>} \cup (IF content = <<>> THEN {} ELSE {SubSeq(content, 1, 1)})

\* createBackup: mkdir, copyFile or the marker write is rejected by the file
\* system (no space, no permission); the rejection passes through
\* createBackup and writeConfig to the caller
BackupFails(c) ==
    /\ c \in DOMAIN calls
    /\ calls[c].pc \in {"mkdir", "copy", "marker"}
    /\ IF calls[c].pc = "mkdir"
       THEN UNCHANGED backups
       ELSE \E left \in {None} \cup {Some(w) : w \in WrittenBeforeError(<<"n">>)} :
                backups' = IF left = None THEN backups
                           ELSE PutBackup(calls[c].dir[1], calls[c].source, left[1])
    /\ calls' = [calls EXCEPT ![c] = Finished(@, "threw")]
    /\ lastOp' = Op(calls[c].op, calls[c].source, 0, calls[c].data, TRUE,
                    Some([code |-> "EIO"]))
    /\ UNCHANGED <<now, serviceVars, runnerVars, cliVars, listings, files, tmps, configCache>>

\* the content call c is writing to the file it has open
WriteContent(c) ==
    IF calls[c].op = "writeConfig" THEN Serialize(calls[c].data[1])
    ELSE backups[calls[c].dir[1]][calls[c].source][1]

\* writeFileText(tmpPath, content) or copyFile(latest, tmpPath) is rejected by
\* the file system after the file was opened; the call throws, and nothing
\* removes the file
WriteTmpFails(c) ==
    /\ c \in DOMAIN calls
    /\ calls[c].pc \in {"writeTmp", "copyTmp"}
    /\ \E written \in WrittenBeforeError(WriteContent(c)) :
        /\ tmps' = TmpsAfterWrite(c, written)
        /\ files' = FilesAfterWrite(c, written)
    /\ calls' = [calls EXCEPT ![c] = Finished(@, "threw")]
    /\ lastOp' = Op(calls[c].op, calls[c].source, 0, calls[c].data, TRUE,
                    Some([code |-> "EIO"]))
    /\ UNCHANGED <<now, serviceVars, runnerVars, cliVars, listings, backups, configCache>>

\* the clock advances by one millisecond or by the cache lifetime
ClockAdvance(ms) ==
    /\ IF ms = 1 THEN now % CONFIG_CACHE_TTL < MaxMs
       ELSE now \div CONFIG_CACHE_TTL < MaxLifetimes
    /\ now' = now + ms
    /\ lastOp' = Callback("tick", 0)
    /\ UNCHANGED <<serviceVars, runnerVars, configVars, cliVars>>

CallIds == DOMAIN calls

\* the steps of the calls in flight
CallSteps ==
    \/ \E c \in CallIds : BackupMkdir(c)
    \/ \E c \in CallIds : BackupStat(c)
    \/ \E c \in CallIds : BackupWrite(c)
    \/ \E c \in CallIds : OpenTmp(c)
    \/ \E c \in CallIds : WriteTmp(c)
    \/ \E c \in CallIds : RollbackFind(c)
    \/ \E c \in CallIds : RollbackCopyTmp(c)
    \/ \E c \in CallIds : Rename(c)
    \/ \E c \in CallIds : Return(c)

ConfigNext ==
    \/ \E ms \in {1, CONFIG_CACHE_TTL} : ClockAdvance(ms)
    \/ \E source \in CalledSources : ReadConfig(source)
    \/ \E source \in CalledSources, data \in DataValues : WriteConfigCall(source, data)
    \/ \E source \in CalledSources : RollbackConfigCall(source)
    \/ CallSteps
    \/ Crash

\* the configuration store on a file system that can reject a write
FaultyNext ==
    \/ ConfigNext
    \/ \E c \in CallIds : BackupFails(c)
    \/ \E c \in CallIds : WriteTmpFails(c)

\* the configuration store used by one caller that awaits every call
AwaitedNext ==
    \/ \E ms \in {1, CONFIG_CACHE_TTL} : ClockAdvance(ms)
    \/ \E source \in CalledSources : AwaitedReadConfig(source)
    \/ \E source \in CalledSources, data \in DataValues : AwaitedWriteConfigCall(source, data)
    \/ \E source \in CalledSources : AwaitedRollbackConfigCall(source)
    \/ CallSteps

(***************************************************************************)
(* spawnPluginCli and runPluginCli.  There are two spawnPluginCli: the one *)
(* of part_002 gates the callers of a command on the first call (the       *)
(* bunxBarrier map), the one of plugin-adapters.ts chains them (bunxQueue).*)
(***************************************************************************)
\* the helpers the adapters invoke
CliCommands == {"oc-anthropic-multi-account"}

\* a spawnPluginCli call.  via: the map it goes through; pc: "exists"
\* (awaiting Bun.file(...).exists()), "waiting" (awaiting the barrier or the
\* previous call of the queue), "mkdir" (runPluginCli awaiting mkdir -p, no
\* process yet), "running" (process spawned), "done" (settled); gate: the call
\* it waits or waited on (0: none); local: whether it runs the local copy;
\* ok: settled with a result (not an error); outcomeOf: the call whose
\* invocation produced the result or error it settled with (0: not settled);
\* timer: the kill timer of runPluginCli ("none", "armed", "fired", "cleared")
\* and deadline the time it is due; killed: proc.kill() was called
CliCall(via, command) ==
    [via |-> via, command |-> command, pc |-> "exists", gate |-> 0, local |-> FALSE,
     ok |-> FALSE, outcomeOf |-> 0, timer |-> "none", deadline |-> 0, killed |-> FALSE]

CliInit ==
    /\ bunxBarrier = <<>>
    /\ bunxQueue = <<>>
    /\ cliCalls = <<>>

\* map.set(command, promise of call k)
MapSet(map, command, k) ==
    [c \in DOMAIN map \cup {command} |-> IF c = command THEN k ELSE map[c]]

\* map.delete(command)
MapDelete(map, command) == [c \in DOMAIN map \ {command} |-> map[c]]

\* spawnPluginCli(command, args) up to its first await
SpawnPluginCli(via, command) ==
    /\ Len(cliCalls) < MaxCliCalls
    /\ cliCalls' = Append(cliCalls, CliCall(via, command))
    /\ lastOp' = Callback("spawnPluginCli", Len(cliCalls) + 1)
    /\ UNCHANGED <<now, serviceVars, runnerVars, configVars, bunxBarrier, bunxQueue>>

\* the timeout of a plugin CLI process, in units of the clock (timeoutMs)
CliTimeout == 1

\* no kill timer is set for the process
NoKillTimer(call) == call

\* runPluginCli: `timer = setTimeout(() => proc.kill(), timeoutMs)`, set in the
\* same step as the process is spawned
SetKillTimer(call) == [call EXCEPT !.timer = "armed", !.deadline = now + CliTimeout]

\* runPluginCli, finally: clearTimeout(timer)
ClearKillTimer(call) == [call EXCEPT !.timer = "cleared"]

\* runPluginCli up to its first await: with a local copy the process is
\* spawned at once, without one `mkdir -p cwd` is awaited first
RunPluginCliPc(useLocal) == IF useLocal THEN "running" ELSE "mkdir"

\* the barrier entry is not awaited: the call starts its run at once
RunExisting(k, existing) ==
    [cliCalls EXCEPT ![k].pc = RunPluginCliPc(FALSE), ![k].gate = existing]

\* part_002: `await existing.catch(() => {})`, call k waits for the call
\* the barrier entry is of
AwaitExisting(k, existing) ==
    [cliCalls EXCEPT ![k].pc = "waiting", ![k].gate = existing]

\* part_002: the existence of the local copy is known.  With a local copy, or
\* with no barrier entry, runPluginCli starts; with no local copy and no entry
\* the call sets the barrier; with an entry it awaits it
BarrierExists(k, useLocal) ==
    /\ k \in DOMAIN cliCalls
    /\ cliCalls[k].via = "bunxBarrier"
    /\ cliCalls[k].pc = "exists"
    /\ LET command == cliCalls[k].command
       IN IF useLocal
          THEN /\ cliCalls' = [cliCalls EXCEPT
                                ![k] = SetKillTimer([@ EXCEPT !.pc = RunPluginCliPc(TRUE),
                                                              !.local = TRUE])]
               /\ UNCHANGED bunxBarrier
          ELSE IF command \in DOMAIN bunxBarrier
          THEN /\ cliCalls' = AwaitExisting(k, bunxBarrier[command])
               /\ UNCHANGED bunxBarrier
          ELSE /\ cliCalls' = [cliCalls EXCEPT ![k].pc = RunPluginCliPc(FALSE)]
               /\ bunxBarrier' = MapSet(bunxBarrier, command, k)
    /\ lastOp' = Callback("exists", k)
    /\ UNCHANGED <<now, serviceVars, runnerVars, configVars, bunxQueue>>

\* the run is not chained onto the previous call: it starts at once
UnchainedPc(prev) == RunPluginCliPc(FALSE)

\* plugin-adapters.ts: `prev.catch(() => {}).then(() => runPluginCli(...))`,
\* the run starts when the previous call (0: none) has settled
ChainedPc(prev) ==
    IF prev = 0 \/ cliCalls[prev].pc = "done" THEN RunPluginCliPc(FALSE) ELSE "waiting"

\* plugin-adapters.ts: the candidates' existence is known.  With a local copy
\* runPluginCli starts; without one the call chains its run onto the promise in
\* the queue (which runs it at once when that promise is settled, or absent)
\* and puts its own promise in the queue
QueueExists(k, useLocal) ==
    /\ k \in DOMAIN cliCalls
    /\ cliCalls[k].via = "bunxQueue"
    /\ cliCalls[k].pc = "exists"
    /\ LET command == cliCalls[k].command
           prev == IF command \in DOMAIN bunxQueue THEN bunxQueue[command] ELSE 0
       IN IF useLocal
          THEN /\ cliCalls' = [cliCalls EXCEPT
                                ![k] = SetKillTimer([@ EXCEPT !.pc = RunPluginCliPc(TRUE),
                                                              !.local = TRUE])]
               /\ UNCHANGED bunxQueue
          ELSE /\ cliCalls' = [cliCalls EXCEPT ![k].gate = prev,
                                               ![k].pc = ChainedPc(prev)]
               /\ bunxQueue' = MapSet(bunxQueue, command, k)
    /\ lastOp' = Callback("exists", k)
    /\ UNCHANGED <<now, serviceVars, runnerVars, configVars, bunxBarrier>>

\* runPluginCli: mkdir -p done, Bun.spawn(cmd) launches the process
CliSpawn(k) ==
    /\ k \in DOMAIN cliCalls
    /\ cliCalls[k].pc = "mkdir"
    /\ cliCalls' = [cliCalls EXCEPT ![k] = SetKillTimer([@ EXCEPT !.pc = "running"])]
    /\ lastOp' = Callback("spawn", k)
    /\ UNCHANGED <<now, serviceVars, runnerVars, configVars, bunxBarrier, bunxQueue>>

\* the error of call k is passed on to the calls awaiting it
ReleasedWithError(k, ok) ==
    [j \in DOMAIN cliCalls |->
        IF j = k
        THEN ClearKillTimer([cliCalls[k] EXCEPT !.pc = "done", !.ok = ok, !.outcomeOf = k])
        ELSE IF cliCalls[j].pc = "waiting" /\ cliCalls[j].gate = k
        THEN IF ok THEN [cliCalls[j] EXCEPT !.pc = RunPluginCliPc(FALSE)]
             ELSE [cliCalls[j] EXCEPT !.pc = "done", !.ok = FALSE, !.outcomeOf = k]
        ELSE cliCalls[j]]

\* the calls after call k has settled with the outcome of its own invocation:
\* those awaiting it (`.catch(() => {})`: whatever its outcome) start
\* runPluginCli
Released(k, ok) ==
    [j \in DOMAIN cliCalls |->
        IF j = k
        THEN ClearKillTimer([cliCalls[k] EXCEPT !.pc = "done", !.ok = ok, !.outcomeOf = k])
        ELSE IF cliCalls[j].pc = "waiting" /\ cliCalls[j].gate = k
        THEN [cliCalls[j] EXCEPT !.pc = RunPluginCliPc(FALSE)]
        ELSE cliCalls[j]]

\* part_002: the process of call k exits (of itself or killed) and the call
\* settles, with a parsed result (ok) or an error (a killed process has no
\* exit code 0); when it is the call
\* the barrier is of, the entry is deleted and the calls awaiting it go on
BarrierExit(k, ok) ==
    /\ k \in DOMAIN cliCalls
    /\ cliCalls[k].via = "bunxBarrier"
    /\ cliCalls[k].pc = "running"
    /\ cliCalls[k].killed => ~ok
    /\ cliCalls' = Released(k, ok)
    /\ LET command == cliCalls[k].command
       IN bunxBarrier' = IF command \in DOMAIN bunxBarrier /\ bunxBarrier[command] = k
                         THEN MapDelete(bunxBarrier, command)
                         ELSE bunxBarrier
    /\ lastOp' = Op("spawnPluginCli", cliCalls[k].command, k, None, ~ok, None)
    /\ UNCHANGED <<now, serviceVars, runnerVars, configVars, bunxQueue>>

\* plugin-adapters.ts: the process of call k exits (of itself or killed) and
\* the call settles, with a parsed result (ok) or an error; the call chained onto it goes on; the queue keeps its entry
QueueExit(k, ok) ==
    /\ k \in DOMAIN cliCalls
    /\ cliCalls[k].via = "bunxQueue"
    /\ cliCalls[k].pc = "running"
    /\ cliCalls[k].killed => ~ok
    /\ cliCalls' = Released(k, ok)
    /\ lastOp' = Op("spawnPluginCli", cliCalls[k].command, k, None, ~ok, None)
    /\ UNCHANGED <<now, serviceVars, runnerVars, configVars, bunxBarrier, bunxQueue>>

\* runPluginCli: the kill timer of call k is due and its callback runs:
\* proc.kill()
KillTimerFire(k) ==
    /\ k \in DOMAIN cliCalls
    /\ cliCalls[k].pc = "running"
    /\ cliCalls[k].timer = "armed"
    /\ now >= cliCalls[k].deadline
    /\ cliCalls' = [cliCalls EXCEPT ![k].timer = "fired", ![k].killed = TRUE]
    /\ lastOp' = Callback("kill", k)
    /\ UNCHANGED <<now, serviceVars, runnerVars, configVars, bunxBarrier, bunxQueue>>

\* the process of call k, killed, exits and the call settles with an error
KilledExit(k) ==
    /\ k \in DOMAIN cliCalls
    /\ cliCalls[k].killed
    /\ BarrierExit(k, FALSE) \/ QueueExit(k, FALSE)

\* the clock advances while a kill timer waits
CliTick ==
    /\ \E k \in DOMAIN cliCalls :
          /\ cliCalls[k].pc = "running"
          /\ cliCalls[k].timer = "armed"
          /\ now < cliCalls[k].deadline
    /\ now' = now + 1
    /\ lastOp' = Callback("tick", 0)
    /\ UNCHANGED <<serviceVars, runnerVars, configVars, cliVars>>

CliCallIds == DOMAIN cliCalls

BarrierNext ==
    \/ \E command \in CliCommands : SpawnPluginCli("bunxBarrier", command)
    \/ \E k \in CliCallIds, useLocal \in BOOLEAN : BarrierExists(k, useLocal)
    \/ \E k \in CliCallIds : CliSpawn(k)
    \/ \E k \in CliCallIds, ok \in BOOLEAN : BarrierExit(k, ok)

QueueNext ==
    \/ \E command \in CliCommands : SpawnPluginCli("bunxQueue", command)
    \/ \E k \in CliCallIds, useLocal \in BOOLEAN : QueueExists(k, useLocal)
    \/ \E k \in CliCallIds : CliSpawn(k)
    \/ \E k \in CliCallIds, ok \in BOOLEAN : QueueExit(k, ok)

\* spawnPluginCli of part_002 with time passing and kill timers firing
BarrierFairNext ==
    \/ BarrierNext
    \/ CliTick
    \/ \E k \in CliCallIds : KillTimerFire(k)

\* spawnPluginCli of plugin-adapters.ts with time passing and kill timers firing
QueueFairNext ==
    \/ QueueNext
    \/ CliTick
    \/ \E k \in CliCallIds : KillTimerFire(k)

(***************************************************************************)
(* listConfigFiles: one stat and one synchronous read per source, in the   *)
(* order of Object.keys(SOURCE_FILENAMES).                                 *)
(***************************************************************************)
\* Object.keys(SOURCE_FILENAMES)
SourceOrder ==
    <<"codex-multi-account-accounts", "anthropic-multi-account-state",
      "antigravity-accounts", "opencode">>

\* the sources whose files the plugin CLIs write: all but opencode.json
PluginSources == ConfigSources \ CalledSources

\* what a plugin CLI leaves in its file
PluginContents == InitialContents \ {None}

\* a listConfigFiles call waiting for `await stat(path)` of source number i
Listing(i, results) ==
    [i |-> i, pc |-> "stat", stat |-> None, results |-> results]

\* listConfigFiles() by a caller that has awaited its earlier listings: the
\* loop runs up to the stat of the first source
ListConfigFilesCall ==
    /\ Len(listings) < MaxListings
    /\ \A l \in DOMAIN listings : listings[l].pc = "done"
    /\ listings' = Append(listings, Listing(1, <<>>))
    /\ lastOp' = Callback("call", 0)
    /\ UNCHANGED <<now, serviceVars, runnerVars, cliVars, files, tmps, backups, configCache, calls>>

\* stat(path) is carried out: it fails for a missing file and gives the size
\* of a present one
ListStat(l) ==
    /\ l \in DOMAIN listings
    /\ listings[l].pc = "stat"
    /\ LET content == files[SourceOrder[listings[l].i]]
       IN listings' = [listings EXCEPT
              ![l].pc = "read",
              ![l].stat = IF content = None THEN None
                          ELSE Some([size |-> Len(content[1])])]
    /\ lastOp' = Callback("stat", l)
    /\ UNCHANGED <<now, serviceVars, runnerVars, cliVars, files, tmps, backups, configCache, calls>>

\* an entry whose parseOk is set without parsing the file
ListEntryUnparsed(source, stat, content) ==
    [source |-> source, path |-> ConfigPath(source),
     exists |-> stat # None,
     parseOk |-> stat # None,
     sizeBytes |-> IF stat = None THEN 0 ELSE stat[1].size]

\* the entry of one source: exists and sizeBytes from stat, parseOk from
\* reading and parsing the file; the catch block leaves the flags that were
\* not reached false
ListEntry(source, stat, content) ==
    [source |-> source, path |-> ConfigPath(source),
     exists |-> stat # None,
     parseOk |-> stat # None /\ content # None /\ JsonParse(content[1]).ok,
     sizeBytes |-> IF stat = None THEN 0 ELSE stat[1].size]

\* the continuation of `await stat(path)`: the file is read and parsed, the
\* entry pushed, and the loop goes on to the stat of the next source or returns
ListRead(l) ==
    /\ l \in DOMAIN listings
    /\ listings[l].pc = "read"
    /\ LET i == listings[l].i
           source == SourceOrder[i]
           results == Append(listings[l].results,
                             ListEntry(source, listings[l].stat, files[source]))
       IN listings' = [listings EXCEPT ![l] =
              IF i < Len(SourceOrder) THEN Listing(i + 1, results)
              ELSE [i |-> i, pc |-> "done", stat |-> None, results |-> results]]
    /\ lastOp' = Callback("read", l)
    /\ UNCHANGED <<now, serviceVars, runnerVars, cliVars, files, tmps, backups, configCache, calls>>

\* a plugin CLI writes the file it owns
PluginWrite(source, content) ==
    /\ files[source] # content
    /\ files' = [files EXCEPT ![source] = content]
    /\ lastOp' = Callback("plugin", 0)
    /\ UNCHANGED <<now, serviceVars, runnerVars, cliVars, tmps, backups, configCache, calls, listings>>

ListingIds == 1..MaxListings

\* listConfigFiles beside the plugin CLIs that write the listed files
ListingNext ==
    \/ ListConfigFilesCall
    \/ \E l \in ListingIds : ListStat(l)
    \/ \E l \in ListingIds : ListRead(l)
    \/ \E source \in PluginSources, content \in PluginContents : PluginWrite(source, content)

(***************************************************************************)
(* Specifications.                                                         *)
(***************************************************************************)
(***************************************************************************)
(* runPluginCli after the process has exited: the exit code is checked and *)
(* the stdout text is scanned for its last line that parses as JSON.       *)
(***************************************************************************)
\* the lines a process writes: nothing, a blank, a status message, two JSON
\* documents, one of them with a carriage return, and a cut-off document
StdoutLinePool ==
    {<<>>,
     <<" ">>,
     <<"o", "k">>,
     <<"{", "\"", "s", "\"", ":", "1", "}">>,
     <<"[", "2", "]", "\r">>,
     <<"{", "s", ":">>}

ExitCodes == {0, 1}

RECURSIVE JoinLines(_)
\* the lines with a line feed between them
JoinLines(lines) ==
    IF lines = <<>> THEN <<>>
    ELSE IF Len(lines) = 1 THEN lines[1]
    ELSE lines[1] \o <<LF>> \o JoinLines(Tail(lines))

\* what the stdout of a process can hold: up to MaxLines lines, with or
\* without a line feed after the last
Stdouts ==
    LET texts == {JoinLines(lines) :
                    lines \in UNION {[1..n -> StdoutLinePool] : n \in 0..MaxLines}}
    IN texts \cup {t \o <<LF>> : t \in texts}

RECURSIVE TrimEnd(_)
TrimEnd(text) ==
    IF text # <<>> /\ IsWs(text[Len(text)])
    THEN TrimEnd(SubSeq(text, 1, Len(text) - 1)) ELSE text

\* String.prototype.trim
Trim(text) ==
    LET start == SkipWs(text, 1)
    IN IF start > Len(text) THEN <<>> ELSE TrimEnd(SubSeq(text, start, Len(text)))

RECURSIVE SplitFrom(_, _, _, _)
\* text.split("\n") from position i on, cur being the line read so far
SplitFrom(text, i, cur, acc) ==
    IF i > Len(text) THEN Append(acc, cur)
    ELSE IF text[i] = LF THEN SplitFrom(text, i + 1, <<>>, Append(acc, cur))
    ELSE SplitFrom(text, i + 1, Append(cur, text[i]), acc)

\* stdout.trim().split("\n").filter(Boolean)
OutputLines(stdout) ==
    SelectSeq(SplitFrom(Trim(stdout), 1, <<>>, <<>>), LAMBDA line : line # <<>>)

RECURSIVE ScanFromStart(_, _)
\* the lines are scanned forwards, from the one after line i
ScanFromStart(lines, i) ==
    IF Len(lines) - i >= Len(lines) THEN ParseFail
    ELSE LET r == JsonParse(lines[Len(lines) - i + 1])
         IN IF r.ok THEN r ELSE ScanFromStart(lines, i - 1)

RECURSIVE ScanFromEnd(_, _)
\* `for (let i = lines.length - 1; i >= 0; i--)`: the parse of the first line
\* from line i backwards that JSON.parse accepts
ScanFromEnd(lines, i) ==
    IF i = 0 THEN ParseFail
    ELSE LET r == JsonParse(lines[i])
         IN IF r.ok THEN r ELSE ScanFromEnd(lines, i - 1)

\* what runPluginCli settles with for an exit code and a stdout text
RunPluginCliOutcome(exitCode, stdout) ==
    IF exitCode # 0
    THEN [threw |-> TRUE, ret |-> Some(<<"exited with code">>)]
    ELSE LET lines == OutputLines(stdout)
             r == ScanFromEnd(lines, Len(lines))
         IN IF r.ok THEN [threw |-> FALSE, ret |-> Some(r.value)]
            ELSE [threw |-> TRUE, ret |-> Some(<<"No JSON output">>)]

\* runPluginCli: the process has exited with exitCode, having written stdout
\* (the outcome depends on nothing else: one exit is followed per behaviour)
RunPluginCliSettle(command, exitCode, stdout) ==
    /\ lastOp.op # "runPluginCli"
    /\ LET out == RunPluginCliOutcome(exitCode, stdout)
       IN lastOp' = Op("runPluginCli", command, 0,
                       Some([exitCode |-> exitCode, stdout |-> stdout]),
                       out.threw, out.ret)
    /\ UNCHANGED <<now, serviceVars, runnerVars, configVars, cliVars>>

OutputNext ==
    \E command \in CliCommands, exitCode \in ExitCodes, stdout \in Stdouts :
        RunPluginCliSettle(command, exitCode, stdout)

\* the sources called when calls on different sources are followed
SeveralSources == CalledSources \cup {"antigravity-accounts"}

\* the configuration store called on several sources, every call awaited
\* before the next is made
SourcesNext ==
    \/ \E ms \in {1, CONFIG_CACHE_TTL} : ClockAdvance(ms)
    \/ \E source \in SeveralSources : AwaitedReadConfig(source)
    \/ \E source \in SeveralSources, data \in DataValues : AwaitedWriteConfigCall(source, data)
    \/ \E source \in SeveralSources : AwaitedRollbackConfigCall(source)
    \/ CallSteps

(***************************************************************************)
(* actions.thresholds: the run body reads the config, sets its thresholds  *)
(* member and writes it back.                                              *)
(***************************************************************************)
\* the validated inputs of actions.thresholds: warning and critical
ThresholdInputs == {[warning |-> 1, critical |-> 2], [warning |-> 3, critical |-> 4]}

\* `obj[key] = value` on a JSON object: an existing member keeps its place
AssignMember(obj, key, value) ==
    IF \E i \in DOMAIN obj.v : obj.v[i].k = key
    THEN JObj([i \in DOMAIN obj.v |->
                 IF obj.v[i].k = key THEN Member(key, value) ELSE obj.v[i]])
    ELSE JObj(Append(obj.v, Member(key, value)))

\* `data.thresholds = { warning: input.warning, critical: input.critical }`
AssignThresholds(data, input) ==
    AssignMember(data, <<"t", "h", "r", "e", "s", "h", "o", "l", "d", "s">>,
                 JObj(<<Member(<<"w", "a", "r", "n", "i", "n", "g">>, JNum(input.warning)),
                        Member(<<"c", "r", "i", "t", "i", "c", "a", "l">>,
                               JNum(input.critical))>>))

\* the run body of actions.thresholds up to the first await inside writeConfig:
\* readConfig(source) returns the very object the cache entry holds (the cached
\* one, or the parsed one it has just stored), the body assigns to its
\* thresholds member (a TypeError when the value is no object), and calls
\* writeConfig(source, data)
ThresholdsRun(source, input) ==
    /\ NoCallInFlight
    /\ Len(calls) < MaxAwaitedCalls
    /\ LET r == ReadConfigResult(source)
           path == ConfigPath(source)
           read == IF ~r.threw /\ ~r.fromCache THEN SetCache(path, r.value)
                   ELSE configCache
       IN IF r.threw \/ r.value.t # "obj"
          THEN /\ configCache' = read
               /\ lastOp' = Op("actions.thresholds", source, 0, Some(input), TRUE, None)
               /\ UNCHANGED calls
          ELSE LET data == AssignThresholds(r.value, input)
               IN /\ configCache' = [read EXCEPT ![path].data = data]
                  /\ calls' = Append(calls, Call("writeConfig", source, Some(data), "mkdir",
                                                 Some(BackupDirName(now))))
                  /\ lastOp' = Callback("call", Len(calls) + 1)
    /\ UNCHANGED <<now, serviceVars, runnerVars, cliVars, listings, files, tmps, backups>>

\* actions.thresholds jobs, one after the other, beside readers of the config
ThresholdsNext ==
    \/ \E ms \in {1, CONFIG_CACHE_TTL} : ClockAdvance(ms)
    \/ \E source \in CalledSources : ReadConfig(source)
    \/ \E source \in CalledSources, input \in ThresholdInputs : ThresholdsRun(source, input)
    \/ \E c \in CallIds : BackupMkdir(c)
    \/ \E c \in CallIds : BackupStat(c)
    \/ \E c \in CallIds : BackupWrite(c)
    \/ \E c \in CallIds : OpenTmp(c)
    \/ \E c \in CallIds : WriteTmp(c)
    \/ \E c \in CallIds : Rename(c)
    \/ \E c \in CallIds : Return(c)

(***************************************************************************)
(* action-service (part_004): ensureActionsRegistered starts the import of *)
(* plugin-adapters.js, whose evaluation registers the account and action   *)
(* commands.                                                               *)
(***************************************************************************)
\* the ids registered by plugin-adapters.ts (accounts.*, actions.*)
ActionCommandIds == {"actions.reset"}

ServiceInit ==
    /\ registered = FALSE
    /\ pluginAdapters = "unloaded"

\* `import("./plugin-adapters.js")`, not awaited: the load of a module not
\* yet loaded is pending when the function returns
Import(state) == IF state = "unloaded" THEN "loading" ELSE state

\* the registry after the registerCommand calls at the top level of
\* plugin-adapters.ts have run
RegisteredActions ==
    [id \in DOMAIN registry \cup ActionCommandIds |->
        IF id \in ActionCommandIds THEN ResetSpec(id) ELSE registry[id]]

\* ensureActionsRegistered()
EnsureActionsRegistered ==
    /\ IF registered
       THEN UNCHANGED serviceVars
       ELSE /\ registered' = TRUE
            /\ pluginAdapters' = Import(pluginAdapters)
    /\ lastOp' = Op("ensureActionsRegistered", "", 0, None, FALSE, None)
    /\ UNCHANGED <<now, runnerVars, configVars, cliVars>>

\* the import settles: plugin-adapters.js is evaluated and its top-level
\* registerCommand calls run
PluginAdaptersEvaluated ==
    /\ pluginAdapters = "loading"
    /\ pluginAdapters' = "evaluated"
    /\ registry' = RegisteredActions
    /\ lastOp' = Callback("import", 0)
    /\ UNCHANGED <<now, registered, jobs, exec, configVars, cliVars>>

\* the server: the runner, with ensureActionsRegistered and runCommand for
\* the ids of plugin-adapters.ts
ActionsNext ==
    \/ RunnerNext
    \/ EnsureActionsRegistered
    \/ PluginAdaptersEvaluated
    \/ \E commandId \in ActionCommandIds, payload \in Payloads : RunCommand(commandId, payload)

Init ==
    /\ now = 0
    /\ lastOp = Callback("init", 0)
    /\ RunnerInit
    /\ ConfigInit
    /\ CliInit
    /\ ServiceInit

Next ==
    \/ RunnerFairNext
    \/ ResubmitNext
    \/ ConfigNext
    \/ FaultyNext
    \/ AwaitedNext
    \/ ListingNext
    \/ BarrierNext
    \/ QueueNext
    \/ BarrierFairNext
    \/ QueueFairNext
    \/ OutputNext
    \/ ActionsNext
    \/ ThresholdsNext
    \/ SourcesNext

\* the command registry and job runner alone
SpecRunner == Init /\ [][RunnerNext]_vars

\* the job runner with a caller that submits again after a failure
SpecResubmit == Init /\ [][ResubmitNext]_vars

\* the job runner with time passing and every due timer firing
SpecRunnerFair ==
    /\ Init
    /\ [][RunnerFairNext]_vars
    /\ WF_vars(Tick)
    /\ WF_vars(TimerTick)
    /\ \A j \in JobIds : WF_vars(TimerFire(j))

\* listConfigFiles beside the plugin CLIs
SpecListing == Init /\ [][ListingNext]_vars

\* the configuration store on a file system that can reject a write
SpecFaulty == Init /\ [][FaultyNext]_vars

\* the configuration store alone
SpecConfig == Init /\ [][ConfigNext]_vars

\* the configuration store with every call awaited before the next is made
SpecAwaited == Init /\ [][AwaitedNext]_vars

\* spawnPluginCli of part_002 alone
SpecBarrier == Init /\ [][BarrierNext]_vars

\* spawnPluginCli of plugin-adapters.ts alone
SpecQueue == Init /\ [][QueueNext]_vars

\* every awaited existence check and mkdir settles, every due kill timer
\* fires, every killed process exits; a process that is not killed may run
\* for ever
CliFairness ==
    /\ WF_vars(CliTick)
    /\ \A k \in 1..MaxCliCalls :
          /\ WF_vars(\E useLocal \in BOOLEAN : BarrierExists(k, useLocal))
          /\ WF_vars(\E useLocal \in BOOLEAN : QueueExists(k, useLocal))
          /\ WF_vars(CliSpawn(k))
          /\ WF_vars(KillTimerFire(k))
          /\ WF_vars(KilledExit(k))

\* spawnPluginCli of part_002 with time passing
SpecBarrierFair == Init /\ [][BarrierFairNext]_vars /\ CliFairness

\* spawnPluginCli of plugin-adapters.ts with time passing
SpecQueueFair == Init /\ [][QueueFairNext]_vars /\ CliFairness

\* runPluginCli on the outputs of exited processes
SpecOutput == Init /\ [][OutputNext]_vars

\* the job runner with the action service
SpecActions == Init /\ [][ActionsNext]_vars

\* the configuration store with actions.thresholds jobs and readers
SpecThresholds == Init /\ [][ThresholdsNext]_vars

\* the configuration store called on several sources
SpecSources == Init /\ [][SourcesNext]_vars

Spec == Init /\ [][Next]_vars

(***************************************************************************)
(* Properties of the job runner (checked under SpecRunner).                *)
(***************************************************************************)
TimedOutFailed(job) ==
    /\ job.status = "failed"
    /\ job.error # None
    /\ job.error[1].code = "TIMEOUT"

\* C1: once a job's status is success, failed or cancelled, no later step
\* writes a different status to it.
C1_TerminalStatusIsWriteOnce ==
    [][\A j \in DOMAIN jobs :
          jobs[j].status \in Terminal => jobs'[j].status = jobs[j].status]_vars

\* C2 as stated: every job whose timeout timer has fired before its run body
\* settled has status failed with error.code TIMEOUT from then on, whatever
\* calls are interleaved.
C2_TimedOutJobIsFailedTimeout ==
    \A j \in DOMAIN jobs : exec[j].timedOut => TimedOutFailed(jobs[j])

\* C2 amended: every job whose timeout timer has fired before its run body
\* settled, and that was not cancelled before the timer fired, has status
\* failed with error.code TIMEOUT from then on.  (A job is cancelled in a
\* state where its timer has fired only if it was cancelled before that:
\* cancelJob refuses a failed job.)
C2_TimedOutUncancelledJobIsFailedTimeout ==
    \A j \in DOMAIN jobs :
        (exec[j].timedOut /\ jobs[j].status # "cancelled") => TimedOutFailed(jobs[j])

\* a cancelJob call was made on a job the timer had marked failed
C2_Witness ==
    /\ lastOp.op = "cancelJob"
    /\ lastOp.id \in DOMAIN jobs
    /\ exec[lastOp.id].timedOut
    /\ TimedOutFailed(jobs[lastOp.id])

\* C3: after the timer has marked a job failed with code TIMEOUT, the step in
\* which its run body resolves or rejects leaves status, finishedAt, result
\* and error as they were.
C3_LateSettleLeavesTimedOutJob ==
    [][\A j \in DOMAIN jobs :
          (/\ TimedOutFailed(jobs[j])
           /\ exec[j].timedOut
           /\ exec[j].body.state = "pending"
           /\ exec'[j].body.state # "pending")
          => /\ jobs'[j].status = jobs[j].status
             /\ jobs'[j].finishedAt = jobs[j].finishedAt
             /\ jobs'[j].result = jobs[j].result
             /\ jobs'[j].error = jobs[j].error]_vars

\* the run body of a timed-out job has settled, at a later instant than the timeout
C3_Witness ==
    \E j \in DOMAIN jobs :
        /\ TimedOutFailed(jobs[j])
        /\ exec[j].body.state = "resolved"
        /\ jobs[j].finishedAt[1] < now

\* C4: a job whose run body resolved with v before its timer fired has status
\* success, result v, and startedAt and finishedAt set.
C4_ResolvedJobIsSuccess ==
    \A j \in DOMAIN jobs :
        (exec[j].body.state = "resolved" /\ ~exec[j].timedOut)
        => /\ jobs[j].status = "success"
           /\ jobs[j].result = Some(exec[j].body.value)
           /\ jobs[j].startedAt # None
           /\ jobs[j].finishedAt # None

C4_Witness ==
    \E j \in DOMAIN jobs :
        /\ exec[j].body.state = "resolved"
        /\ ~exec[j].timedOut
        /\ jobs[j].result = Some([echo |-> "hi"])

\* C5: a job whose run body rejected with an Error before its timer fired has
\* status failed, error.code RUNTIME_ERROR and error.message the Error's message.
C5_RejectedJobIsRuntimeError ==
    \A j \in DOMAIN jobs :
        (/\ exec[j].body.state = "rejected"
         /\ exec[j].body.value.isError
         /\ ~exec[j].timedOut)
        => /\ jobs[j].status = "failed"
           /\ jobs[j].error =
                Some([code |-> "RUNTIME_ERROR", message |-> <<exec[j].body.value.message>>])

C5_Witness ==
    \E j \in DOMAIN jobs :
        /\ exec[j].body.state = "rejected"
        /\ exec[j].body.value.isError
        /\ ~exec[j].timedOut
        /\ jobs[j].status = "failed"

\* C6: cancelJob on a job whose status is success, failed or cancelled returns
\* false and leaves every field of the job unchanged.
C6_CancelTerminalJobIsNoOp ==
    [][(/\ lastOp'.op = "cancelJob"
        /\ lastOp'.id \in DOMAIN jobs
        /\ jobs[lastOp'.id].status \in Terminal)
       => /\ lastOp'.ret = Some([cancelled |-> FALSE])
          /\ jobs' = jobs]_vars

\* cancelJob has just returned false for a job that is in a terminal status
C6_Witness ==
    /\ lastOp.op = "cancelJob"
    /\ lastOp.ret = Some([cancelled |-> FALSE])
    /\ lastOp.id \in DOMAIN jobs
    /\ jobs[lastOp.id].status \in Terminal

\* C7: runCommand with an unregistered command id, or with a payload the
\* command's validateInput rejects, throws, creates no job and starts no run body.
C7_RejectedRunCommandCreatesNoJob ==
    [][(/\ lastOp'.op = "runCommand"
        /\ \/ lastOp'.name \notin DOMAIN registry
           \/ ~ValidateInputOk(registry[lastOp'.name].validateInput, lastOp'.arg))
       => /\ lastOp'.threw
          /\ jobs' = jobs
          /\ exec' = exec]_vars

\* runCommand has just thrown on an invalid payload for a registered command,
\* with a job in the store
C7_Witness ==
    /\ lastOp.op = "runCommand"
    /\ lastOp.threw
    /\ lastOp.name \in DOMAIN registry
    /\ Len(jobs) > 0

\* C8: registerCommand with an id that is already registered throws and leaves
\* the registry unchanged; a registered spec is never replaced, and every job
\* runs with the spec registered for its command id.
C8_DuplicateRegistrationKeepsFirstSpec ==
    [][/\ (lastOp'.op = "registerCommand" /\ lastOp'.name \in DOMAIN registry)
          => (lastOp'.threw /\ registry' = registry)
       /\ \A id \in DOMAIN registry :
             id \in DOMAIN registry' /\ registry'[id] = registry[id]
       /\ \A j \in DOMAIN jobs' : exec'[j].spec = registry'[jobs'[j].commandId]]_vars

\* registerCommand has just thrown for a spec that differs from the registered
\* one, after a job of the command was started
C8_Witness ==
    /\ lastOp.op = "registerCommand"
    /\ lastOp.threw
    /\ lastOp.arg # registry[lastOp.name]
    /\ Len(jobs) > 0

(***************************************************************************)
(* Properties of the configuration store                                   *)
(***************************************************************************)
\* the other calls have all returned or thrown: call c runs alone
RunsAlone(c) == \A d \in DOMAIN calls \ {c} : calls[d].pc \in Settled

\* the number of backup files of source in the backup directories bk
BackupCount(bk, source) == Cardinality({dir \in DOMAIN bk : bk[dir][source] # None})

\* C9: every writeConfig(source, data) produces exactly one new backup of the
\* source: when createBackup writes its backup file, the number of distinct
\* backup files of the source grows by exactly one, also when an earlier write
\* was made at the same clock millisecond (stated for a call that runs alone,
\* at the step from its copyFile or marker write to its tmp write).
C9_WriteAddsOneBackup ==
    [][\A c \in DOMAIN calls :
        /\ RunsAlone(c)
        /\ calls[c].pc \in {"copy", "marker"}
        /\ calls'[c].pc = "openTmp"
        => BackupCount(backups', calls[c].source)
             = BackupCount(backups, calls[c].source) + 1]_vars

\* C10: in the state where writeConfig(source, x) has just returned, a
\* readConfig(source) returns a value equal to x.
C10_ReadAfterWriteReturnsWritten ==
    lastOp.op = "writeConfig" /\ ~lastOp.threw
        => /\ ~ReadConfigResult(lastOp.name).threw
           /\ ReadConfigResult(lastOp.name).value = lastOp.arg[1]

\* the last three calls are writeConfig(source, A), writeConfig(source, B) and
\* rollbackConfig(source), each returned before the next was made
WroteWroteRolledBack(source) ==
    LET n == Len(calls)
    IN /\ n >= 3
       /\ \A c \in {n - 2, n - 1, n} : calls[c].source = source /\ calls[c].pc = "done"
       /\ calls[n - 2].op = "writeConfig"
       /\ calls[n - 1].op = "writeConfig"
       /\ calls[n].op = "rollbackConfig"

\* C11: after writeConfig(s, A), writeConfig(s, B) and rollbackConfig(s), made
\* one after the other with no read since the second write returned, the
\* readConfig(s) that follows returns A (the content of the backup made by the
\* second write, the most recently created one) and not B.
C11_RollbackRestoresLatestBackup ==
    [][\A source \in CalledSources :
        /\ WroteWroteRolledBack(source)
        /\ ConfigPath(source) \notin DOMAIN configCache
        /\ lastOp'.op = "readConfig"
        /\ lastOp'.name = source
        => /\ ~lastOp'.threw
           /\ lastOp'.ret = Some([value |-> calls[Len(calls) - 2].data[1]])]_vars

\* readConfig has just returned A after writeConfig(s, A), writeConfig(s, B)
\* with B different from A, and rollbackConfig(s)
C11_Witness ==
    /\ lastOp.op = "readConfig"
    /\ WroteWroteRolledBack(lastOp.name)
    /\ calls[Len(calls) - 2].data # calls[Len(calls) - 1].data
    /\ lastOp.ret = Some([value |-> calls[Len(calls) - 2].data[1]])
    /\ Cardinality(DOMAIN backups) = 2

\* the complete contents a config file can have: what it held before the first
\* call, the serialisation of a value written, or the marker of a backup made
\* when no file existed
CompleteContents ==
    {content[1] : content \in InitialContents \ {None}}
        \cup {Serialize(data) : data \in DataValues}
        \cup {<<"n", "u", "l", "l", LF>>}

\* C12: at every step of writeConfig and rollbackConfig calls, overlapping ones
\* and a crash included, the live config file holds a complete content (the
\* one from before the operation or the new one of some operation), never a
\* partially written file.
C12_LiveFileIsNeverPartial ==
    \A source \in ConfigSources :
        files[source] # None => files[source][1] \in CompleteContents

\* C13: a readConfig(source) made while the source's file is absent throws a
\* ConfigError of status 404, and one made while the file exists but is not
\* valid JSON throws a ConfigError of status 422; neither returns a value.
\* (readConfig leaves the file as it is, so the file of the state it returns in
\* is the file at the time of the call.)
C13_ReadConfigStatuses ==
    lastOp.op = "readConfig" =>
        LET file == files[lastOp.name]
        IN /\ file = None
                => lastOp.threw /\ lastOp.ret = Some([status |-> 404])
           /\ (file # None /\ ~JsonParse(file[1]).ok)
                => lastOp.threw /\ lastOp.ret = Some([status |-> 422])

(***************************************************************************)
(* Properties of spawnPluginCli                                            *)
(***************************************************************************)
\* call k has launched its process
Launched(k) == cliCalls[k].pc \in {"running", "done"}

\* call w found no local copy and no entry in the map: the first (warmup) call
FirstCall(w) ==
    /\ ~cliCalls[w].local
    /\ cliCalls[w].gate = 0
    /\ cliCalls[w].pc # "exists"

\* the calls that arrived while call w was in flight and were gated on it
GatedOn(w) == {k \in DOMAIN cliCalls : cliCalls[k].gate = w}

\* C14: of the callers that invoke spawnPluginCli for one helper name while
\* its first call is in flight, only the first launches a process until every
\* one of them has received a result: a second launch for the name starts only
\* when the first caller and all the callers gated on it have settled.
C14_OneLaunchServesAllCallers ==
    \A w \in DOMAIN cliCalls :
        FirstCall(w) =>
            \A k \in GatedOn(w) :
                Launched(k) => \A j \in GatedOn(w) \cup {w} : cliCalls[j].pc = "done"

\* C15: in the step in which the first (warmup) call for a helper name
\* settles, with success or failure, the map loses its entry for the name and
\* every call that was waiting starts its run (none waits on for another).
C15_SettledWarmupReleasesAllWaiters ==
    [][\A w \in DOMAIN cliCalls :
        /\ FirstCall(w)
        /\ cliCalls[w].pc = "running"
        /\ cliCalls'[w].pc = "done"
        => /\ cliCalls[w].command \notin DOMAIN bunxBarrier'
           /\ cliCalls[w].command \notin DOMAIN bunxQueue'
           /\ \A j \in DOMAIN cliCalls :
                (cliCalls[j].command = cliCalls[w].command /\ cliCalls[j].pc = "waiting")
                    => cliCalls'[j].pc = "mkdir"]_vars

\* C16: rollbackConfig never creates, modifies or removes a backup: a step in
\* which a rollbackConfig call starts, advances, returns or throws leaves the
\* backup directories and their contents as they were
C16_RollbackLeavesBackupsAlone ==
    [][(\E c \in DOMAIN calls' :
            /\ calls'[c].op = "rollbackConfig"
            /\ c \in DOMAIN calls => calls'[c].pc # calls[c].pc)
        => backups' = backups]_vars

\* a rollbackConfig has restored a backup and returned
C16_Witness ==
    \E c \in DOMAIN calls :
        /\ calls[c].op = "rollbackConfig"
        /\ calls[c].pc = "done"
        /\ DOMAIN backups # {}

\* C17: a run-body failure or a timeout is never thrown to a caller: the
\* promise of executeJob never rejects, a job whose run body rejected or
\* whose timer fired is in a terminal status, and a runCommand called with a
\* registered command and a valid payload after a job has failed throws
\* nothing, stores a new job and starts executing it
C17_FailuresAreRecordedNotThrown ==
    [][/\ \A j \in DOMAIN jobs' :
            /\ exec'[j].promise # "rejected"
            /\ (exec'[j].body.state = "rejected" \/ exec'[j].timedOut)
                 => jobs'[j].status \in Terminal
       /\ (/\ \E j \in DOMAIN jobs : jobs[j].status = "failed"
           /\ lastOp'.op = "runCommand"
           /\ ~RunCommandThrows(lastOp'.name, lastOp'.arg))
          => /\ ~lastOp'.threw
             /\ Len(jobs') = Len(jobs) + 1
             /\ lastOp'.ret = Some([jobId |-> Len(jobs')])
             /\ jobs'[Len(jobs')].status = "running"
             /\ exec'[Len(jobs')].body.state = "pending"]_vars

\* a job failed because its run body rejected, its executeJob settled, and
\* the job submitted after the failure ran to success
C17_Witness ==
    \E j, k \in DOMAIN jobs :
        /\ j < k
        /\ jobs[j].status = "failed"
        /\ jobs[j].error # None
        /\ jobs[j].error[1].code = "RUNTIME_ERROR"
        /\ exec[j].promise = "fulfilled"
        /\ jobs[k].startedAt[1] >= jobs[j].finishedAt[1]
        /\ jobs[k].status = "success"

\* C18: in every reachable state, for every job: result is present only if
\* status is success; error is present only if status is failed, and its
\* code is then TIMEOUT or RUNTIME_ERROR; finishedAt is present exactly when
\* status is success, failed or cancelled
C18_JobFieldsMatchStatus ==
    \A j \in DOMAIN jobs :
        /\ jobs[j].result # None => jobs[j].status = "success"
        /\ jobs[j].error # None =>
              /\ jobs[j].status = "failed"
              /\ jobs[j].error[1].code \in {"TIMEOUT", "RUNTIME_ERROR"}
        /\ jobs[j].finishedAt # None <=> jobs[j].status \in Terminal

\* a job that was cancelled (cancelJob alone logs at level warn) and whose
\* run body rejected afterwards: it is failed, with an error and a finishedAt
C18_Witness ==
    \E j \in DOMAIN jobs :
        /\ \E i \in DOMAIN jobs[j].logs : jobs[j].logs[i].level = "warn"
        /\ jobs[j].status = "failed"
        /\ jobs[j].error # None
        /\ jobs[j].finishedAt # None

\* C19: the job store only grows: a job id returned by runCommand was in
\* the store of no earlier submission (ids are distinct); from then on
\* getJob(id) returns a job with that id and the submitted commandId and
\* listJobs contains it; getJob of an id that runCommand has not returned
\* is undefined
C19_JobStoreOnlyGrows ==
    [][/\ \A id \in DOMAIN jobs :
            /\ GetJob(id)' # None
            /\ GetJob(id)'[1].id = id
            /\ GetJob(id)'[1].commandId = jobs[id].commandId
            /\ \E i \in DOMAIN ListJobs' : ListJobs'[i].id = id
       /\ (lastOp'.op = "runCommand" /\ ~lastOp'.threw) =>
            \E id \in ResubmitJobIds :
               /\ lastOp'.ret = Some([jobId |-> id])
               /\ GetJob(id) = None
               /\ GetJob(id)' # None
               /\ GetJob(id)'[1].id = id
               /\ GetJob(id)'[1].commandId = lastOp'.name
               /\ \E i \in DOMAIN ListJobs' : ListJobs'[i].id = id
       /\ \A id \in ResubmitJobIds :
            (GetJob(id) = None /\ GetJob(id)' # None) =>
                /\ lastOp'.op = "runCommand"
                /\ lastOp'.ret = Some([jobId |-> id])]_vars

\* two submissions with two ids, the first job failed since it was
\* submitted, both still returned by getJob, and an id never returned
C19_Witness ==
    \E j, k \in DOMAIN jobs :
        /\ j # k
        /\ GetJob(j)[1].id # GetJob(k)[1].id
        /\ GetJob(j)[1].status = "failed"
        /\ Len(ListJobs) = 2
        /\ \E id \in ResubmitJobIds : GetJob(id) = None

\* C20: every job created by runCommand eventually reaches a terminal
\* status (success, failed or cancelled), whether or not its run body ever
\* settles, when time passes and a due timer fires
C20_EveryJobTerminates ==
    \A j \in 1..MaxJobs :
        (j \in DOMAIN jobs) ~> (j \in DOMAIN jobs /\ jobs[j].status \in Terminal)

\* a job whose run body has not settled and that the timer has failed
C20_Witness ==
    \E j \in DOMAIN jobs :
        /\ exec[j].body.state = "pending"
        /\ exec[j].timedOut
        /\ jobs[j].status = "failed"
        /\ jobs[j].error[1].code = "TIMEOUT"

\* C21: a rollbackConfig(source) that finds no backup of the source throws a
\* ConfigError of status 404, and neither the step that starts the call nor
\* the step that throws changes the live file, the tmp path, the read cache
\* or the backups
C21_RollbackWithoutBackupIs404 ==
    [][/\ \A c \in DOMAIN calls :
            (/\ calls[c].op = "rollbackConfig"
             /\ calls[c].pc = "find"
             /\ calls'[c].pc \notin {"find", "crashed"}
             /\ \A dir \in DOMAIN backups : backups[dir][calls[c].source] = None)
            => /\ calls'[c].pc = "threw"
               /\ lastOp' = Op("rollbackConfig", calls[c].source, 0, None, TRUE,
                               Some([status |-> 404]))
               /\ UNCHANGED <<files, tmps, configCache, backups>>
       /\ (/\ Len(calls') > Len(calls)
           /\ calls'[Len(calls')].op = "rollbackConfig")
          => UNCHANGED <<files, tmps, configCache, backups>>]_vars

\* a rollbackConfig has thrown while the source had a live file and a cached
\* value and no backup
C21_Witness ==
    \E c \in DOMAIN calls :
        /\ calls[c].op = "rollbackConfig"
        /\ calls[c].pc = "threw"
        /\ lastOp.op = "rollbackConfig"
        /\ lastOp.threw
        /\ files[calls[c].source] # None
        /\ ConfigPath(calls[c].source) \in DOMAIN configCache
        /\ DOMAIN backups = {}

\* C22: listConfigFiles never fails and returns one entry per ConfigSource,
\* four entries in the fixed order of the sources; the entry pushed for a
\* source says exists=false, parseOk=false when stat found no file,
\* exists=true, parseOk=false when the file read is not valid JSON, and
\* exists=true, parseOk=true when it is; whatever the file of one source
\* holds, the listing goes on to the next source
C22_ListingReportsEverySource ==
    [][\A l \in DOMAIN listings' :
        LET results == listings'[l].results
        IN /\ \A k \in DOMAIN results : results[k].source = SourceOrder[k]
           /\ listings'[l].pc = "done" =>
                /\ Len(results) = Cardinality(ConfigSources)
                /\ Len(results) = 4
           /\ (/\ l \in DOMAIN listings
               /\ listings[l].pc = "read"
               /\ listings'[l] # listings[l]) =>
                LET entry == results[Len(results)]
                    content == files[SourceOrder[listings[l].i]]
                IN /\ listings'[l].pc \in {"stat", "done"}
                   /\ Len(results) = Len(listings[l].results) + 1
                   /\ entry.source = SourceOrder[listings[l].i]
                   /\ listings[l].stat = None =>
                        ~entry.exists /\ ~entry.parseOk
                   /\ (listings[l].stat # None /\ ~JsonParse(content[1]).ok) =>
                        entry.exists /\ ~entry.parseOk
                   /\ (listings[l].stat # None /\ JsonParse(content[1]).ok) =>
                        entry.exists /\ entry.parseOk]_vars

\* a listing has returned with a broken file first, a valid file after it
\* and an absent file
C22_Witness ==
    \E l \in DOMAIN listings :
        /\ listings[l].pc = "done"
        /\ \E j, k, m \in DOMAIN listings[l].results :
            /\ j < k
            /\ listings[l].results[j].exists /\ ~listings[l].results[j].parseOk
            /\ listings[l].results[k].exists /\ listings[l].results[k].parseOk
            /\ ~listings[l].results[m].exists

\* the awaits of a call between the creation of its tmp file and its rename
MidWrite == {"writeTmp", "copyTmp", "rename"}

\* C23: when no call on a source is in flight, a tmp file of the source
\* exists only if the process died while a call on it was between opening
\* its tmp file and renaming it; so after calls that all returned or threw
\* there is no tmp file
C23_NoTmpFileUnlessCrashedMidWrite ==
    \A source \in ConfigSources :
        (/\ \A c \in DOMAIN calls : calls[c].source = source => calls[c].pc \in Settled
         /\ tmps[source] # None)
        => \E c \in DOMAIN calls :
              /\ calls[c].source = source
              /\ calls[c].pc = "crashed"
              /\ calls[c].at \in MidWrite

\* C24: a job's log is append-only and in the order of production: the log
\* of a job before a step is a prefix of its log after the step, and the
\* first entry of every job's log is the info entry written on the
\* transition to running
C24_LogIsAppendOnly ==
    [][/\ \A j \in DOMAIN jobs :
            /\ Len(jobs'[j].logs) >= Len(jobs[j].logs)
            /\ SubSeq(jobs'[j].logs, 1, Len(jobs[j].logs)) = jobs[j].logs
       /\ \A j \in DOMAIN jobs' :
            /\ jobs'[j].logs # <<>>
            /\ jobs'[j].logs[1].level = "info"
            /\ jobs'[j].logs[1].message = <<"Running command", jobs'[j].commandId>>
            /\ jobs'[j].logs[1].ts = jobs'[j].startedAt[1]]_vars

\* a job whose log holds the entry of the transition to running, an entry
\* of its run body, the warning of cancelJob and the error of its failure
C24_Witness ==
    \E j \in DOMAIN jobs :
        /\ Len(jobs[j].logs) >= 4
        /\ jobs[j].logs[1].level = "info"
        /\ \E i \in DOMAIN jobs[j].logs : jobs[j].logs[i].level = "warn"
        /\ jobs[j].logs[Len(jobs[j].logs)].level = "error"

\* the instants the configuration store's clock can show
ClockInstants ==
    {ms + n * CONFIG_CACHE_TTL : ms \in 0..MaxMs, n \in 0..MaxLifetimes}

\* C25: for clock instants t1 < t2, a day boundary between them or not, the
\* backup directory name of t1 sorts strictly before that of t2; and the
\* directory findLatestBackup returns for a source is, among the
\* directories holding a backup of the source, the one created last
C25_BackupNamesSortByCreation ==
    /\ \A t1, t2 \in ClockInstants :
          t1 < t2 => /\ LexLess(BackupDirName(t1), BackupDirName(t2))
                     /\ ~LexLess(BackupDirName(t2), BackupDirName(t1))
    /\ \A source \in CalledSources :
          FindLatestBackup(source) # None =>
              \E latest \in ClockInstants :
                  /\ FindLatestBackup(source) = Some(BackupDirName(latest))
                  /\ \A t \in ClockInstants :
                        BackupDirName(t) \in BackupsOf(source) => t <= latest

\* backups of one source made before and after midnight, the later one latest
C25_Witness ==
    \E source \in CalledSources :
        /\ BackupDirName(0) \in BackupsOf(source)
        /\ BackupDirName(1) \in BackupsOf(source)
        /\ SubSeq(IsoString(0), 1, 10) # SubSeq(IsoString(1), 1, 10)
        /\ FindLatestBackup(source) = Some(BackupDirName(1))

\* C26: cancelJob(id) returns true exactly when the job exists and its
\* status is queued or running; it then sets status to cancelled, sets
\* finishedAt, appends one warn log entry and leaves every other field of
\* the job (startedAt, result, error) and every other job as it was;
\* otherwise (unknown id, or a job in another status) it returns false and
\* changes nothing
C26_CancelJobContract ==
    [][lastOp'.op = "cancelJob" =>
        LET id == lastOp'.id
            active == id \in DOMAIN jobs /\ jobs[id].status \in {"queued", "running"}
        IN /\ lastOp'.ret = Some([cancelled |-> active])
           /\ ~lastOp'.threw
           /\ UNCHANGED <<registry, exec>>
           /\ IF active
              THEN jobs' = [jobs EXCEPT ![id] =
                              [@ EXCEPT !.status = "cancelled",
                                        !.finishedAt = Some(now),
                                        !.logs = Append(@, LogEntry(now, "warn",
                                                   <<"Job cancelled by user">>))]]
              ELSE UNCHANGED jobs]_vars

\* cancelJob has returned true for a running job and, later, false for an
\* id that is in no job
C26_Witness ==
    /\ lastOp.op = "cancelJob"
    /\ lastOp.id \notin DOMAIN jobs
    /\ lastOp.ret = Some([cancelled |-> FALSE])
    /\ \E j \in DOMAIN jobs :
          /\ jobs[j].status = "cancelled"
          /\ jobs[j].startedAt # None
          /\ jobs[j].finishedAt # None

\* C27: when runCommand returns a job id, the new job is in status queued,
\* has no startedAt, and nothing of executeJob or of its run body has
\* happened yet: its log is empty
C27_ReturnedJobIsQueued ==
    [][(lastOp'.op = "runCommand" /\ ~lastOp'.threw) =>
        \E id \in DOMAIN jobs' :
            /\ lastOp'.ret = Some([jobId |-> id])
            /\ jobs'[id].status = "queued"
            /\ jobs'[id].startedAt = None
            /\ jobs'[id].logs = <<>>]_vars

\* C28: once a job is in a terminal status its log receives no further
\* entry, whatever its run body does afterwards
C28_TerminalJobLogIsFrozen ==
    [][\A j \in DOMAIN jobs :
        jobs[j].status \in Terminal => jobs'[j].logs = jobs[j].logs]_vars

\* C29: whenever the rename of a writeConfig call replaces the live file of
\* a source, some backup of the source holds exactly the content replaced;
\* and a writeConfig whose backup step is rejected leaves the tmp file and
\* the live file as they were
C29_EveryWriteIsRecoverable ==
    [][\A c \in DOMAIN calls :
        /\ (/\ calls[c].op = "writeConfig"
            /\ calls[c].pc = "rename"
            /\ calls'[c].pc = "renamed"
            /\ files[calls[c].source] # None)
           => \E dir \in DOMAIN backups :
                 backups[dir][calls[c].source] = files[calls[c].source]
        /\ (/\ calls[c].pc \in {"mkdir", "copy", "marker"}
            /\ calls'[c].pc = "threw")
           => UNCHANGED <<files, tmps>>]_vars

\* C30: when a rollbackConfig returns, the file of its source exists; and
\* when the last call was a rollbackConfig that returned after restoring the
\* sentinel backup "null\n", the file holds the sentinel and a readConfig of
\* the source returns null and throws nothing
C30_RollbackLeavesAFile ==
    [][\A source \in CalledSources :
        /\ (\E c \in DOMAIN calls :
                /\ calls[c].op = "rollbackConfig"
                /\ calls[c].source = source
                /\ calls[c].pc = "renamed"
                /\ calls'[c].pc = "done")
           => files'[source] # None
        /\ (/\ NoCallInFlight
            /\ calls # <<>>
            /\ calls[Len(calls)].op = "rollbackConfig"
            /\ calls[Len(calls)].source = source
            /\ calls[Len(calls)].pc = "done"
            /\ files[source] = Some(<<"n", "u", "l", "l", LF>>)
            /\ lastOp'.op = "readConfig"
            /\ lastOp'.name = source)
           => /\ ~lastOp'.threw
              /\ lastOp'.ret = Some([value |-> JNull])]_vars

\* a bunx process of call k is running
BunxRunning(k) == ~cliCalls[k].local /\ cliCalls[k].pc = "running"

\* call w is the only call for its name so far that found no local copy and
\* no entry in the map: the first call for the name
FirstOfName(w) ==
    /\ FirstCall(w)
    /\ \A j \in DOMAIN cliCalls \ {w} :
          cliCalls[j].command = cliCalls[w].command => ~FirstCall(j)

\* C31: while the first (warmup) call for a helper name is in flight, no
\* caller gated on it has launched its process, and no other bunx process for
\* the name is running.
C31_GatedCallersWaitForWarmup ==
    \A w \in DOMAIN cliCalls :
        FirstCall(w) /\ cliCalls[w].pc # "done" =>
            /\ \A k \in GatedOn(w) : ~Launched(k) /\ cliCalls[k].pc # "mkdir"
            /\ FirstOfName(w) =>
                  \A j \in DOMAIN cliCalls \ {w} :
                      cliCalls[j].command = cliCalls[w].command => ~BunxRunning(j)

\* two callers wait while the warmup's process is running
C31_Witness ==
    \E w \in DOMAIN cliCalls :
        /\ FirstOfName(w)
        /\ cliCalls[w].pc = "running"
        /\ Cardinality({k \in GatedOn(w) : cliCalls[k].pc = "waiting"}) = 2

\* the bunx invocation of call k is in flight: runPluginCli has started and
\* not settled
BunxInFlight(k) == ~cliCalls[k].local /\ cliCalls[k].pc \in {"mkdir", "running"}

\* C32: through bunxQueue at most one bunx invocation per command is in
\* flight, and a call chained onto a previous call (the k-th onto the
\* (k-1)-th to reach the queue) starts its invocation only when that call has
\* settled.
C32_QueueRunsOneAtATime ==
    /\ \A j, k \in DOMAIN cliCalls :
          (j # k /\ cliCalls[j].command = cliCalls[k].command)
              => ~(BunxInFlight(j) /\ BunxInFlight(k))
    /\ \A k \in DOMAIN cliCalls :
          (cliCalls[k].gate # 0 /\ (BunxInFlight(k) \/ cliCalls[k].pc = "done"))
              => cliCalls[cliCalls[k].gate].pc = "done"

\* the third call of a chain runs after the two before it have settled
C32_Witness ==
    \E i, j, k \in DOMAIN cliCalls :
        /\ cliCalls[k].gate = j /\ cliCalls[j].gate = i /\ cliCalls[i].gate = 0
        /\ ~cliCalls[i].local /\ cliCalls[i].pc = "done"
        /\ cliCalls[j].pc = "done"
        /\ cliCalls[k].pc = "running"

\* C33: when the call a caller was gated on has failed, the caller is not
\* left waiting and is not settled with that call's error: it starts its own
\* invocation, and what it settles with is the outcome of that invocation.
C33_GatedCallerGetsItsOwnOutcome ==
    \A k \in DOMAIN cliCalls :
        LET w == cliCalls[k].gate
        IN (w # 0 /\ cliCalls[w].pc = "done" /\ ~cliCalls[w].ok) =>
              /\ cliCalls[k].pc \in {"mkdir", "running", "done"}
              /\ cliCalls[k].pc = "done" => cliCalls[k].outcomeOf = k

\* the warmup failed and a caller gated on it has settled with a result
C33_Witness ==
    \E k \in DOMAIN cliCalls :
        LET w == cliCalls[k].gate
        IN /\ w # 0
           /\ FirstCall(w) /\ cliCalls[w].pc = "done" /\ ~cliCalls[w].ok
           /\ cliCalls[k].pc = "done" /\ cliCalls[k].ok

LineSpans(text) ==
    {sp \in (1..(Len(text) + 1)) \X (0..Len(text)) :
        /\ sp[2] >= sp[1] - 1
        /\ sp[1] = 1 \/ text[sp[1] - 1] = LF
        /\ sp[2] = Len(text) \/ text[sp[2] + 1] = LF
        /\ \A i \in sp[1]..sp[2] : text[i] # LF}

\* the non-empty lines of a text that are JSON documents
JsonSpans(text) ==
    {sp \in LineSpans(text) :
        sp[2] >= sp[1] /\ JsonParse(SubSeq(text, sp[1], sp[2])).ok}

\* C35: with exit code 0 runPluginCli returns the parse of the last
\* non-empty line of stdout that is valid JSON, whatever lines follow it, and
\* throws when no line is; with any other exit code it throws.
C35_LastJsonLineIsReturned ==
    lastOp.op = "runPluginCli" =>
        LET exitCode == lastOp.arg[1].exitCode
            stdout == lastOp.arg[1].stdout
            valid == JsonSpans(stdout)
        IN IF exitCode # 0 \/ valid = {}
           THEN lastOp.threw
           ELSE /\ ~lastOp.threw
                /\ \E sp \in valid :
                      /\ \A other \in valid : other[1] <= sp[1]
                      /\ lastOp.ret = Some(JsonParse(SubSeq(stdout, sp[1], sp[2])).value)

\* exit code 0 and two JSON lines followed by a status message: the second
\* JSON line is returned
C35_Witness ==
    /\ lastOp.op = "runPluginCli"
    /\ lastOp.arg = Some([exitCode |-> 0,
                          stdout |-> <<"{", "\"", "s", "\"", ":", "1", "}", LF,
                                       "[", "2", "]", "\r", LF, "o", "k", LF>>])
    /\ ~lastOp.threw
    /\ lastOp.ret = Some(JArr(<<JNum(2)>>))

\* C36: once ensureActionsRegistered() has returned, a runCommand for an
\* account or action command never fails on an id missing from the registry.
C36_EnsuredActionsAreRegistered ==
    [][(/\ registered
        /\ lastOp'.op = "runCommand"
        /\ lastOp'.name \in ActionCommandIds
        /\ lastOp'.threw)
       => RegistryHas(lastOp'.name)]_vars

\* C37: in the state where rollbackConfig(source) has just returned, a
\* readConfig(source) returns the content of the backup that was restored
\* (when that content is JSON), whatever was read or written before.
C37_ReadAfterRollbackReturnsRestored ==
    (lastOp.op = "rollbackConfig" /\ ~lastOp.threw) =>
        LET restored == backups[lastOp.ret[1].path.dir][lastOp.name][1]
            parsed == JsonParse(restored)
        IN parsed.ok =>
              /\ ~ReadConfigResult(lastOp.name).threw
              /\ ReadConfigResult(lastOp.name).value = parsed.value

\* C38: with overlapping writeConfig and rollbackConfig calls on a source, the
\* rename of a call installs the content of that call (what it wrote to the
\* tmp path), and a call whose rename fails is not one whose content is the
\* live file.
C38_RenameInstallsOwnContent ==
    [][\A c \in DOMAIN calls :
        calls[c].pc = "rename" =>
            /\ calls'[c].pc = "renamed"
                  => files'[calls[c].source] = Some(WriteContent(c))
            /\ calls'[c].pc = "threw"
                  => files[calls[c].source] # Some(WriteContent(c))]_vars

\* what the file of a source holds and what its backups hold: with one
\* writeConfig at a time, each content the file has held is among them
HeldContents(source) ==
    (IF files[source] = None THEN {} ELSE {files[source][1]})
        \cup {backups[dir][source][1] : dir \in BackupsOf(source)}

\* C39: a value returned by readConfig(source) is the parse of a content the
\* source's file holds or has held: the cache serves no value that was never
\* written to the file.
C39_ReadReturnsContentEverHeld ==
    (lastOp.op = "readConfig" /\ ~lastOp.threw) =>
        \E content \in HeldContents(lastOp.name) :
            /\ JsonParse(content).ok
            /\ lastOp.ret = Some([value |-> JsonParse(content).value])

\* the cache entry of a source is the same in the next state
CacheEntryUnchanged(source) ==
    LET path == ConfigPath(source)
    IN /\ path \in DOMAIN configCache' <=> path \in DOMAIN configCache
       /\ path \in DOMAIN configCache => configCache'[path] = configCache[path]

\* the latest directory, by the time it is named after, that holds a backup
\* of the source
LatestBackupDir(source) ==
    LET times == {t \in ClockInstants : BackupDirName(t) \in BackupsOf(source)}
    IN BackupDirName(CHOOSE t \in times : \A u \in times : u <= t)

\* C40: a step of a writeConfig or rollbackConfig call on one source leaves
\* the live file, the tmp file and the cache entry of every other source as
\* they are, and rollbackConfig(source) takes the latest backup directory that
\* holds a file of that source, later directories of other sources
\* notwithstanding.
C40_OtherSourcesUntouched ==
    [][\A c \in DOMAIN calls' :
        (c \notin DOMAIN calls \/ calls'[c] # calls[c]) =>
            /\ \A other \in ConfigSources \ {calls'[c].source} :
                  /\ files'[other] = files[other]
                  /\ tmps'[other] = tmps[other]
                  /\ CacheEntryUnchanged(other)
            /\ (c \in DOMAIN calls /\ calls[c].pc = "find" /\ calls'[c].pc = "openTmp")
                  => calls'[c].dir = Some(LatestBackupDir(calls[c].source))
            /\ (/\ c \in DOMAIN calls
                /\ calls[c].op = "rollbackConfig"
                /\ calls[c].pc = "rename"
                /\ calls'[c].pc = "renamed")
                  => files'[calls[c].source]
                       = backups[LatestBackupDir(calls[c].source)][calls[c].source]]_vars

\* a rollbackConfig of one source has returned, having restored a backup older
\* than a directory that holds only the other source's backup, and the other
\* source has a file and a cache entry
C40_Witness ==
    \E source \in SeveralSources, other \in SeveralSources :
        /\ other # source
        /\ lastOp.op = "rollbackConfig" /\ ~lastOp.threw /\ lastOp.name = source
        /\ \E dir \in BackupsOf(other) :
              /\ backups[dir][source] = None
              /\ LexLess(lastOp.ret[1].path.dir, dir)
        /\ files[other] # None
        /\ ConfigPath(other) \in DOMAIN configCache

====
